---- MODULE Spec2Model ----
(***************************************************************************)
(* Invoice approval state machine of discord1.py (InvoiceApprovalAgent):   *)
(* the invoice_states / thread_map tables, the per-message handler         *)
(* handle_thread_message, the periodic reminder_task sweep and the         *)
(* creation workflow process_invoice.  The agent runs on one asyncio event *)
(* loop: code between two awaits is one atomic action, and every await is  *)
(* a point where another coroutine may run.                                *)
(***************************************************************************)
EXTENDS Integers, Sequences, FiniteSets, TLC

\* ------------------------------------------------------------------------
\* Bounds of the model (budgets of environment events)
\* ------------------------------------------------------------------------
\* the whole agent (Spec)
MaxMsgs == 1
MaxSweeps == 1
MaxCreates == 1
\* message handlers on stored records (SpecMessages)
MaxHandled == 2
\* message handlers racing the reminder sweep (SpecSweep)
MaxSweepMsgs == 1
MaxRounds == 1
\* runs of the reminder sweep in SpecReminders
MaxReminderSweeps == 7
\* messages, sweeps and submissions around a stop() (SpecShutdown)
MaxStopMsgs == 1
MaxStopSweeps == 1
MaxStopCreates == 1
\* submissions of invoices that are already posted (SpecResubmit)
MaxResubmits == 2
\* polls of the follow-up scheduler (SpecFollowups)
MaxPolls == 2
\* runs of the reminder sweep with failing sends (SpecSweepFailures)
MaxFailingSweeps == 2
\* messages in threads with and without a thread_map entry (SpecThreads)
MaxThreadMsgs == 1
\* runs of the reminder sweep over a record without an SLA notice (SpecNotice)
MaxNoticeSweeps == 2

\* ------------------------------------------------------------------------
\* Value domains
\* ------------------------------------------------------------------------
NoneStr == "None"
NoneInt == -1

Invoices == {"INV-1", "INV-2"}
\* slots for concurrently running handle_thread_message coroutines
Handlers == {1, 2}

\* chat users: Approvers hold the approving role, Outsiders do not
Approvers == {"alice", "bob"}
Outsiders == {"mallory"}
Authors == Approvers \cup Outsiders

\* f"{message.author.display_name} ({message.author.name})"
ApproverLabel(author) ==
    CASE author = "alice"   -> "Alice (alice)"
      [] author = "bob"     -> "Bob (bob)"
      [] author = "mallory" -> "Mallory (mallory)"
      [] OTHER              -> NoneStr

\* a 0x + 64 hex digit ledger hash as typed (mixed case) and lower-cased
HashTyped == "0xAB..64"
HashLower == "0xab..64"
PlainRef == "ABC123456789"

\* instants (minutes since the epoch of the run) at which the clock is observed
T0 == 0
ReminderIntervalHours == 24
ApprovalSlaHours == 24
MaxReminders == 5
TimePoints == <<0, 1440>>
\* the instants of a run of the reminder sweep alone: around the first
\* interval, then one instant per further interval
ReminderTimes == <<0, 1439, 1440, 1441, 2880, 4320, 5760, 7200, 8640>>

\* ------------------------------------------------------------------------
\* Strings: str.strip / str.lower / regular expressions, on the bounded
\* vocabulary of the model
\* ------------------------------------------------------------------------
\* str.strip()
Strip(s) ==
    CASE s = " CC-42" -> "CC-42"
      [] s = " "      -> ""
      [] OTHER        -> s

\* str.lower() on transaction references
Lower(s) ==
    CASE s = HashTyped -> HashLower
      [] OTHER         -> s

\* a looser pattern that takes any alphanumeric reference for a ledger hash
IsLedgerHashLoose(s) == s \in {HashTyped, HashLower, PlainRef}

\* re.fullmatch(r"0x[a-fA-F0-9]{64}", s, re.IGNORECASE)
IsLedgerHash(s) == s \in {HashTyped, HashLower}

\* Python truthiness of an optional string
Truthy(s) == s # NoneStr /\ s # ""

\* A chat message is a sequence of space separated tokens.
MsgApproveCC == <<"approve", "CC-42">>
MsgHash      == <<"REF:", "ABC123", HashTyped>>
MsgTxRef     == <<"TX:", PlainRef>>
Messages == {MsgApproveCC, MsgHash, MsgTxRef}

Range(s) == {s[k] : k \in 1..Len(s)}

\* substrings of a token among the words the code searches for (case folded)
Contains(tok, word) ==
    CASE word = "status"  -> tok = "status"
      [] word = "approve" -> tok = "approve"
      [] word = "reject"  -> tok = "reject"
      [] word = "TX"      -> tok = "TX:"
      [] word = "TRANSACTION" -> FALSE
      [] word = "REF"     -> tok = "REF:"
      [] word = "PAYMENT" -> FALSE
      [] word = "COMPLETED" -> FALSE
      [] OTHER -> FALSE

MsgContains(m, word) == \E k \in 1..Len(m) : Contains(m[k], word)

\* length of the token when it consists of [A-Z0-9] only (re.IGNORECASE), else 0
AlnumLen(tok) ==
    CASE tok = PlainRef -> 12
      [] tok = "ABC123" -> 6
      [] tok \in {HashTyped, HashLower} -> 66
      [] tok = "approve" -> 7
      [] tok = "reject" -> 6
      [] tok = "because" -> 7
      [] tok = "status" -> 6
      [] tok = "spam" -> 4
      [] tok = "paid" -> 4
      [] OTHER -> 0

\* re.search(r'0x[a-fA-F0-9]{64}', raw_content): the first hash of the message
HashPositions(m) == {k \in 1..Len(m) : IsLedgerHash(m[k])}
Min(S) == CHOOSE x \in S : \A y \in S : x <= y
FirstHash(m) == IF HashPositions(m) = {} THEN NoneStr ELSE m[Min(HashPositions(m))]

\* r'KEY[:\s]+([A-Z0-9]{6,})' : a token KEY: followed by an alphanumeric token
AfterKey(m, key) ==
    LET P == {k \in 1..(Len(m) - 1) : m[k] = key /\ AlnumLen(m[k + 1]) >= 6}
    IN IF P = {} THEN NoneStr ELSE m[Min(P) + 1]

\* r'([A-Z0-9]{8,64})' : the first bare alphanumeric run of 8 to 64 characters
\* (of a longer run, its first 64 characters)
BareRef(m) ==
    LET P == {k \in 1..Len(m) : AlnumLen(m[k]) >= 8}
    IN IF P = {} THEN NoneStr
       ELSE IF IsLedgerHash(m[Min(P)]) THEN "0xAB..62" ELSE m[Min(P)]

\* the tx_patterns cascade of handle_thread_message: first match wins
ExtractRef(m) ==
    IF FirstHash(m) # NoneStr THEN FirstHash(m)
    ELSE IF AfterKey(m, "TX:") # NoneStr THEN AfterKey(m, "TX:")
    ELSE IF AfterKey(m, "TRANSACTION:") # NoneStr THEN AfterKey(m, "TRANSACTION:")
    ELSE IF AfterKey(m, "REF:") # NoneStr THEN AfterKey(m, "REF:")
    ELSE IF AfterKey(m, "PAYMENT:") # NoneStr THEN AfterKey(m, "PAYMENT:")
    ELSE IF AfterKey(m, "COMPLETED:") # NoneStr THEN AfterKey(m, "COMPLETED:")
    ELSE BareRef(m)

PaymentKeywords == {"TX", "TRANSACTION", "REF", "PAYMENT", "COMPLETED"}

\* looks_like_payment
LooksLikePayment(intent, m) ==
    \/ intent = "payment"
    \/ \E w \in PaymentKeywords : MsgContains(m, w)
    \/ FirstHash(m) # NoneStr

\* ------------------------------------------------------------------------
\* State
\* ------------------------------------------------------------------------
VARIABLES
    invoice_states,   \* table invoice_states: set of rows [invoice_number, state_json]
    thread_map,       \* table thread_map: set of rows [thread_id, invoice_number]
    worksheet,        \* the spreadsheet: sequence of data rows (row 1 is the header)
    handler,          \* the running handle_thread_message coroutines
    sweep,            \* the reminder_task coroutine
    creator,          \* the process_invoice coroutine
    effects,          \* what the last step did to the outside world and the store
    outcomes,         \* payment outcome notices posted in each invoice's thread
    now,              \* index of the current instant in TimePoints
    nextId,           \* next Discord snowflake id
    budget,           \* environment events still to come: messages, sweeps, submissions
    lifecycle,        \* "running"; "stopping": stop() set shutting_down, cancelled
                      \* reminder_task and awaits discord_client.close();
                      \* "closed": the client and the database connection are closed
    processed_gdrive_ids,  \* Nodes.processed_gdrive_ids: Drive file ids already taken
    task,             \* the worker(file_meta) calls of the background batches
    submitted,        \* submit_invoice calls made so far, per Drive file id
    invoice_followups,     \* table invoice_followups of the email database
    replies,          \* follow-ups whose mail thread holds a reply newer than the notice
    followup_loop,    \* the _followup_scheduler_loop thread
    reminders         \* reminder emails sent so far, per follow-up

\* the ingestion side (Nodes) and its follow-up scheduler
ingest_vars == <<processed_gdrive_ids, task, submitted>>
followup_vars == <<invoice_followups, replies, followup_loop, reminders>>

vars == <<invoice_states, thread_map, worksheet, handler, sweep, creator,
          effects, outcomes, now, nextId, budget, lifecycle,
          ingest_vars, followup_vars>>

Clock == budget.clock[now]

\* InvoiceState as built by process_invoice
InitialState(inv, ts) ==
    [ invoice_number |-> inv, timestamp |-> ts,
      discord_thread_id |-> NoneInt, discord_message_id |-> NoneInt,
      approval_status |-> "pending", cost_center |-> NoneStr,
      approver |-> NoneStr, rejection_reason |-> NoneStr,
      payment_status |-> "pending", transaction_id |-> NoneStr,
      paid_amount_eth |-> NoneInt, reminder_count |-> 0,
      last_reminder |-> NoneInt, spreadsheet_row |-> NoneInt,
      sla_message_id |-> NoneInt, approval_sla_hours |-> ApprovalSlaHours ]

\* ------------------------------------------------------------------------
\* The record store
\* ------------------------------------------------------------------------
\* a plain INSERT on a table without the PRIMARY KEY: the old row stays
InsertKeepingOld(table, key, st) ==
    table \cup {[invoice_number |-> key, state_json |-> st]}

\* INSERT OR REPLACE INTO invoice_states: the PRIMARY KEY conflict deletes the
\* old row of the key before the new row is inserted
InsertOrReplace(table, key, st) ==
    {r \in table : r.invoice_number # key} \cup
        {[invoice_number |-> key, state_json |-> st]}

\* json.dumps(state, default=str) and json.loads: every field of a record is
\* a str, a number or None, written as a JSON string, number or null
StringFields == {"invoice_number", "approval_status", "cost_center", "approver",
                 "rejection_reason", "payment_status", "transaction_id"}

JsonNull == [type |-> "null", str |-> "", num |-> 0]
JsonString(v) == [type |-> "string", str |-> v, num |-> 0]
JsonNumber(v) == [type |-> "number", str |-> "", num |-> v]

JsonDumps(st) ==
    [f \in DOMAIN st |->
        IF f \in StringFields
        THEN IF st[f] = NoneStr THEN JsonNull ELSE JsonString(st[f])
        ELSE IF st[f] = NoneInt THEN JsonNull ELSE JsonNumber(st[f])]

\* a decoder that reads null as an empty value instead of None
JsonLoadsNullAsEmpty(text) ==
    [f \in DOMAIN text |->
        CASE text[f].type = "null"   -> IF f \in StringFields THEN "" ELSE 0
          [] text[f].type = "string" -> text[f].str
          [] OTHER                   -> text[f].num]

JsonLoads(text) ==
    [f \in DOMAIN text |->
        CASE text[f].type = "null"   -> IF f \in StringFields THEN NoneStr ELSE NoneInt
          [] text[f].type = "string" -> text[f].str
          [] OTHER                   -> text[f].num]

\* save_state (no lock contention); a row's state_json text is kept as
\* json.loads reads it
SaveState(table, key, st) == InsertOrReplace(table, key, JsonLoads(JsonDumps(st)))

\* the module never imports time, so time.sleep(delay) raises NameError
TimeImportedYes == TRUE
TimeImported == FALSE

\* retries = 5
Retries == 5
\* what an attempt to execute and commit meets: success, an OperationalError
\* naming a locked or busy database, another OperationalError
StoreAnswers == {"ok", "busy", "error"}
\* the store is busy for the first j attempts, answers the next with last
\* and is free afterwards
Answers(j, last) ==
    [k \in 1..Retries |-> IF k <= j THEN "busy" ELSE IF k = j + 1 THEN last ELSE "ok"]
AnswerSeqs == {Answers(j, last) : j \in 0..Retries, last \in StoreAnswers \ {"busy"}}

\* the retry loop of save_state and of the thread_map write from the given
\* attempt on: how it ends, whether it committed, the attempts made
RECURSIVE RetryLoop(_, _)
RetryLoop(answers, attempt) ==
    IF attempt > Retries
    THEN [outcome |-> "returned", committed |-> FALSE, attempts |-> Retries]
    ELSE CASE answers[attempt] = "ok" ->
                [outcome |-> "returned", committed |-> TRUE, attempts |-> attempt]
           [] answers[attempt] = "busy" ->
                IF TimeImported
                THEN RetryLoop(answers, attempt + 1)
                ELSE [outcome |-> "NameError", committed |-> FALSE,
                      attempts |-> attempt]
           [] OTHER ->
                [outcome |-> "OperationalError", committed |-> FALSE,
                 attempts |-> attempt]

\* self.conn: stop() closes it last; any use of it afterwards raises
\* sqlite3.ProgrammingError
ConnOpen == lifecycle # "closed"

\* load_state: fetchone() of SELECT state_json WHERE invoice_number = ?
Stored(key) == {r \in invoice_states : r.invoice_number = key}
HasState(key) == Stored(key) # {}
LoadState(key) == (CHOOSE r \in Stored(key) : TRUE).state_json

\* INSERT OR REPLACE INTO thread_map
MapThread(table, tid, inv) ==
    {r \in table : r.thread_id # tid} \cup
        {[thread_id |-> tid, invoice_number |-> inv]}

\* SELECT invoice_number FROM thread_map WHERE thread_id = ?
MappedInvoices(tid) == {r.invoice_number : r \in {x \in thread_map : x.thread_id = tid}}

\* legacy scan: state_json LIKE '%"discord_thread_id": "<tid>"%'
ScanRows(tid) == {r \in invoice_states : r.state_json.discord_thread_id = tid}

KnownThreads ==
    ({r.thread_id : r \in thread_map} \cup
     {r.state_json.discord_thread_id : r \in invoice_states}) \ {NoneInt}

\* ------------------------------------------------------------------------
\* The spreadsheet mirror
\* ------------------------------------------------------------------------
OverallStatus(st) ==
    IF st.payment_status = "completed" /\ Truthy(st.transaction_id) THEN "completed"
    ELSE IF st.payment_status = "failed" THEN "failed"
    ELSE st.approval_status

SheetRow(st) ==
    [ invoice_number |-> st.invoice_number, status |-> OverallStatus(st),
      approver |-> st.approver, cost_center |-> st.cost_center,
      rejection_reason |-> st.rejection_reason,
      payment_status |-> st.payment_status,
      transaction_id |-> st.transaction_id,
      paid_amount_eth |-> st.paid_amount_eth ]

\* update_spreadsheet_row: rewrites the cells of the record's row, when it has one
UpdateSpreadsheetRow(ws, st) ==
    IF st.spreadsheet_row # NoneInt /\ st.spreadsheet_row - 1 \in 1..Len(ws)
    THEN [ws EXCEPT ![st.spreadsheet_row - 1] =
             [SheetRow(st) EXCEPT !.invoice_number = ws[st.spreadsheet_row - 1].invoice_number]]
    ELSE ws

\* ------------------------------------------------------------------------
\* Effects of a step: messages sent, oracle calls, writes
\* ------------------------------------------------------------------------
\* kinds of messages the agent sends into a thread: "notice", "sla",
\* "reminder", "status", "already", "ask_cc", "approved", "rejected",
\* "already_completed", "guidance", and the payment outcome notices
\* "payment_ok", "payment_failed", "payment_recorded"

Effect(op, inv, arg) == [op |-> op, inv |-> inv, arg |-> arg]

\* safe_send / channel.send of a message of a kind into an invoice's thread
Sent(inv, kind) == Effect("send", inv, kind)
\* safe_send: the message is dropped, without any await, when shutting_down
\* is set or the client is closed
SafeSend(inv, kind) == IF lifecycle = "running" THEN {Sent(inv, kind)} ELSE {}
\* an exception raised out of a handler, a workflow or save_state
Raised(inv, error) == Effect("raise", inv, error)
\* self.llm.ainvoke
CalledLLM(inv) == Effect("llm", inv, "")
\* check_transaction_success / get_transaction_amount_eth
CalledLedger(inv, what) == Effect("ledger", inv, what)
\* save_state
Saved(inv) == Effect("save_state", inv, "")
\* update_spreadsheet_row, which may raise
Mirrored(inv, ok) == Effect("update_spreadsheet_row", inv, IF ok THEN "ok" ELSE "raised")

\* ------------------------------------------------------------------------
\* Message intent resolver: parse_message_with_llm
\* ------------------------------------------------------------------------
\* what the LLM oracle may answer (a black box), "fail" standing for an
\* exception or an answer that is not a JSON object
\* (a field the code does not read for the answered intent is left absent)
LLMOutputs ==
    [ intent : {"approve"}, cost_center : {"", " ", "CC-42", " CC-42"},
      reason : {NoneStr}, transaction_id : {NoneStr} ]
    \cup [ intent : {"reject"}, cost_center : {NoneStr},
           reason : {"none", "spam"}, transaction_id : {NoneStr} ]
    \cup [ intent : {"status"}, cost_center : {NoneStr},
           reason : {NoneStr}, transaction_id : {NoneStr} ]
    \cup [ intent : {"payment", "none"}, cost_center : {NoneStr},
           reason : {NoneStr}, transaction_id : {"null", HashTyped, PlainRef} ]
LLMFailure == [intent |-> "fail", cost_center |-> NoneStr, reason |-> NoneStr,
               transaction_id |-> NoneStr]
\* an answer that is not JSON (json.loads raises), and a JSON value that is
\* not an object (parsed.get raises AttributeError)
LLMMalformed == [LLMFailure EXCEPT !.intent = "malformed"]
LLMNonObject == [LLMFailure EXCEPT !.intent = "non_object"]
LLMFailures == {LLMFailure, LLMMalformed, LLMNonObject}
LLMAnswers == LLMOutputs \cup LLMFailures

\* placeholder values are normalised to None
NullLike(v) == IF v \in {"", "none", "null", NoneStr} THEN NoneStr ELSE v

\* a fallback that looks for an approval before a status request
HeuristicIntentApproveFirst(m) ==
    IF MsgContains(m, "approve") THEN "approve"
    ELSE IF MsgContains(m, "status") THEN "status"
    ELSE IF MsgContains(m, "reject") THEN "reject"
    ELSE "none"

\* the keyword / regex fallback
HeuristicIntent(m) ==
    IF MsgContains(m, "status") THEN "status"
    ELSE IF MsgContains(m, "approve") THEN "approve"
    ELSE IF MsgContains(m, "reject") THEN "reject"
    ELSE "none"

HeuristicCostCenter(m) ==
    LET P == {k \in 1..Len(m) : m[k] = "CC-42"}
    IN IF P = {} THEN NoneStr ELSE m[Min(P)]

HeuristicReason(m) ==
    LET P == {k \in 1..(Len(m) - 1) : m[k] = "because"}
    IN IF P = {} THEN NoneStr ELSE m[Min(P) + 1]

ParseMessageWithLLM(m, answer) ==
    IF answer \in LLMFailures
    THEN [ intent |-> HeuristicIntent(m), cost_center |-> HeuristicCostCenter(m),
           reason |-> HeuristicReason(m), transaction_id |-> NoneStr ]
    ELSE [ intent |-> answer.intent,
           cost_center |-> NullLike(answer.cost_center),
           reason |-> NullLike(answer.reason),
           transaction_id |-> NullLike(answer.transaction_id) ]

\* ------------------------------------------------------------------------
\* Ledger oracle (etherscan_client)
\* ------------------------------------------------------------------------
\* outcome of _etherscan_get after its retries: a receipt status, or an error
ReceiptAnswers == {"1", "0", "error"}
\* transferred amount in tenths of ETH, or an error
AmountAnswers == {5, NoneInt}

\* a fail-open check: an oracle error counts as a success
CheckTransactionNotFailed(answer) == answer # "0"

\* a check that takes any receipt for a success
CheckTransactionAnswered(answer) == answer # "error"

CheckTransactionSuccess(answer) == answer = "1"
GetTransactionAmountEth(answer) == IF answer = NoneInt THEN 0 ELSE answer

\* ------------------------------------------------------------------------
\* The ingestion side: background batches and the follow-up scheduler
\* ------------------------------------------------------------------------
\* Drive file ids of uploaded invoice files
Files == {"F1", "F2"}
\* the threads running _background_process_invoices: the one started by
\* _process_attachments and the one started by process_invoices_from_gdrive.
\* A batch has min(4, len(files)) pool threads, so with two files every
\* worker(file_meta) call of a batch runs at once.
Batches == {"attachments", "gdrive"}
Tasks == Batches \X Files

\* no batch was started
NoIngestion ==
    /\ processed_gdrive_ids = {}
    /\ task = [t \in Tasks |-> "none"]
    /\ submitted = [f \in Files |-> 0]

\* ids of rows of invoice_followups
FollowupIds == {1, 2}

IdleLoop == [pc |-> "sleep", due |-> <<>>, polls |-> 0]

\* no follow-up was created
NoFollowups ==
    /\ invoice_followups = {}
    /\ replies = {}
    /\ followup_loop = IdleLoop
    /\ reminders = [f \in FollowupIds |-> 0]

\* ------------------------------------------------------------------------
\* Initial state: the agent just constructed, both tables empty
\* ------------------------------------------------------------------------
NoState == InitialState(NoneStr, 0)

IdleHandler ==
    [ pc |-> "idle", inv |-> NoneStr, state |-> NoState, msg |-> <<>>,
      author |-> NoneStr, tx |-> NoneStr, success |-> FALSE, thread |-> NoneInt ]

IdleSweep == [ pc |-> "idle", rows |-> <<>>, state |-> NoState ]

IdleCreator == [ pc |-> "idle", state |-> NoState ]

Init ==
    /\ invoice_states = {}
    /\ thread_map = {}
    /\ worksheet = <<>>
    /\ handler = [h \in Handlers |-> IdleHandler]
    /\ sweep = IdleSweep
    /\ creator = IdleCreator
    /\ effects = {}
    /\ outcomes = [i \in Invoices |-> 0]
    /\ now = 1
    /\ nextId = 1
    /\ lifecycle = "running"
    /\ NoIngestion
    /\ NoFollowups
    /\ budget = [msgs |-> MaxMsgs, sweeps |-> MaxSweeps, creates |-> MaxCreates,
                 clock |-> TimePoints]

\* ------------------------------------------------------------------------
\* handle_thread_message
\* ------------------------------------------------------------------------
\* a lookup that only scans the stored records for the thread id
LookupRowsScanOnly(tid) == ScanRows(tid)

\* rows the thread lookup can yield: thread_map first, the legacy scan only
\* when thread_map has no entry
LookupRows(tid) ==
    IF MappedInvoices(tid) # {}
    THEN {r \in invoice_states : r.invoice_number \in MappedInvoices(tid)}
    ELSE ScanRows(tid)

\* a role check that lets every member through
HasRoleAnyone(author) == author \in Authors

\* any(role.id == config.approving_team_role_id for role in roles)
HasRole(author) == author \in Approvers

\* the message leaves the handler: the coroutine returns
Return(h) == [handler EXCEPT ![h] = IdleHandler]

\* on_message -> handle_thread_message up to its first await: thread lookup,
\* load_state, role check on the cached roles
Arrive(h, tid, m, a, cached) ==
    /\ handler[h].pc = "idle"
    /\ \A g \in Handlers : g < h => handler[g].pc # "idle"
    /\ budget.msgs > 0
    /\ budget' = [budget EXCEPT !.msgs = @ - 1]
    /\ cached => HasRole(a)
    /\ \/ /\ lifecycle # "running" \/ LookupRows(tid) = {}
          /\ effects' = {}
          /\ UNCHANGED handler
       \/ /\ lifecycle = "running"
          /\ \E r \in LookupRows(tid) :
               LET h1 == [ pc |-> "fetch_member", inv |-> r.invoice_number,
                           state |-> r.state_json, msg |-> m, author |-> a,
                           tx |-> NoneStr, success |-> FALSE, thread |-> tid ]
               IN IF cached
                  THEN /\ handler' = [handler EXCEPT ![h] = [h1 EXCEPT !.pc = "llm"]]
                       /\ effects' = {CalledLLM(r.invoice_number)}
                  ELSE /\ handler' = [handler EXCEPT ![h] = h1]
                       /\ effects' = {}
    /\ UNCHANGED <<invoice_states, thread_map, worksheet, sweep, creator, outcomes,
                   now, nextId, lifecycle,
                   ingest_vars, followup_vars>>

\* guild.fetch_member returns (ok) or raises: a user without the role is dropped
FetchMember(h, ok) ==
    /\ handler[h].pc = "fetch_member"
    /\ IF ok /\ HasRole(handler[h].author)
       THEN /\ handler' = [handler EXCEPT ![h].pc = "llm"]
            /\ effects' = {CalledLLM(handler[h].inv)}
       ELSE /\ handler' = Return(h)
            /\ effects' = {}
    /\ UNCHANGED <<invoice_states, thread_map, worksheet, sweep, creator, outcomes,
                   now, nextId, budget, lifecycle,
                   ingest_vars, followup_vars>>

\* a dispatch without the test for an already decided record
BranchIgnoringDecision(st, intent) ==
    IF intent = "status" THEN "status"
    ELSE IF intent \in {"approve", "reject"} THEN "decide"
    ELSE "payment"

\* which part of handle_thread_message a classified message reaches
Branch(st, intent) ==
    IF intent = "status" THEN "status"
    ELSE IF st.approval_status # "pending" /\ intent \in {"approve", "reject"}
    THEN "already"
    ELSE IF st.approval_status = "pending" /\ intent \in {"approve", "reject"}
    THEN "decide"
    ELSE "payment"

\* an argument that falls back to a default when the message gives none
ArgumentOrDefault(text) ==
    IF Truthy(text) /\ Strip(text) # "" THEN Strip(text) ELSE "UNASSIGNED"

\* the text after the first word of "APPROVE <cc>" / "REJECT <reason>":
\* content.strip().split(' ', 1)[1].strip(), "" when there is no second part
Argument(text) == IF Truthy(text) THEN Strip(text) ELSE ""

\* a rejection that stores no reason when none is given
DecideWithoutSentinel(st, intent, parsed, author) ==
    LET st1 == [st EXCEPT !.approval_status =
                              IF intent = "approve" THEN "approved" ELSE "rejected",
                          !.approver = ApproverLabel(author)]
    IN IF intent = "approve"
       THEN IF Argument(parsed.cost_center) # ""
            THEN [st1 EXCEPT !.cost_center = Argument(parsed.cost_center)]
            ELSE st1
       ELSE [st1 EXCEPT !.rejection_reason = Argument(parsed.reason)]

\* a decision that forgets the cost center
DecideWithoutCostCenter(st, intent, parsed, author) ==
    [st EXCEPT !.approval_status =
                   IF intent = "approve" THEN "approved" ELSE "rejected",
               !.approver = ApproverLabel(author),
               !.rejection_reason =
                   IF intent = "approve" THEN @
                   ELSE IF Argument(parsed.reason) # "" THEN Argument(parsed.reason)
                   ELSE "No reason provided"]

\* a rejection that records no reason when the approver gave none
DecideWithoutDefaultReason(st, intent, parsed, author) ==
    LET st1 == [st EXCEPT !.approval_status =
                              IF intent = "approve" THEN "approved" ELSE "rejected",
                          !.approver = ApproverLabel(author)]
    IN IF intent = "approve"
       THEN IF Argument(parsed.cost_center) # ""
            THEN [st1 EXCEPT !.cost_center = Argument(parsed.cost_center)]
            ELSE st1
       ELSE IF Argument(parsed.reason) # ""
            THEN [st1 EXCEPT !.rejection_reason = Argument(parsed.reason)]
            ELSE st1

\* process_approval_message up to the await of its reply
Decide(st, intent, parsed, author) ==
    LET st1 == [st EXCEPT !.approval_status =
                              IF intent = "approve" THEN "approved" ELSE "rejected",
                          !.approver = ApproverLabel(author)]
    IN IF intent = "approve"
       THEN IF Argument(parsed.cost_center) # ""
            THEN [st1 EXCEPT !.cost_center = Argument(parsed.cost_center)]
            ELSE st1
       ELSE [st1 EXCEPT !.rejection_reason =
                 IF Argument(parsed.reason) # "" THEN Argument(parsed.reason)
                 ELSE "No reason provided"]

\* the payment branch is entered
PaymentOpen(st, intent, m) ==
    st.payment_status = "pending" /\ LooksLikePayment(intent, m)

\* the test guarding the "Invoice already completed!" reply, made inside the
\* payment branch
AlreadyCompleted(st) ==
    Truthy(st.transaction_id) /\ st.payment_status = "completed"

\* the reference the payment branch works with
TransactionId(parsed, m) ==
    IF Truthy(parsed.transaction_id) THEN parsed.transaction_id ELSE ExtractRef(m)

\* a face-value payment that also records an amount of zero
RecordPaymentZeroAmount(st, tx) ==
    [st EXCEPT !.transaction_id = tx, !.payment_status = "completed",
               !.paid_amount_eth = 0]

\* the non-ledger reference is taken at face value
RecordPayment(st, tx) ==
    [st EXCEPT !.transaction_id = tx, !.payment_status = "completed"]

\* the ledger verdict is stored
VerifiedPayment(st, tx, success, amount) ==
    [st EXCEPT !.transaction_id = tx, !.paid_amount_eth = amount,
               !.payment_status = IF success THEN "completed" ELSE "failed"]

Notified(inv) == [outcomes EXCEPT ![inv] = @ + 1]

\* save_state, update_spreadsheet_row, then the outcome notice; when the
\* mirror raises, the handler ends before the notice
PersistPayment(inv, st, kind) ==
    IF ConnOpen
    THEN /\ invoice_states' = SaveState(invoice_states, inv, st)
         /\ \/ /\ worksheet' = UpdateSpreadsheetRow(worksheet, st)
               /\ effects' = {Saved(inv), Mirrored(inv, TRUE)} \cup SafeSend(inv, kind)
               /\ outcomes' = IF SafeSend(inv, kind) # {} THEN Notified(inv)
                               ELSE outcomes
            \/ /\ effects' = {Saved(inv), Mirrored(inv, FALSE)}
               /\ UNCHANGED <<worksheet, outcomes>>
    ELSE /\ effects' = {Raised(inv, "ProgrammingError")}
         /\ UNCHANGED <<invoice_states, worksheet, outcomes>>

\* the end of process_approval_message: save_state, then
\* update_spreadsheet_row, which may raise
WriteDecision(st, mirror_ok) ==
    IF ConnOpen
    THEN /\ invoice_states' = SaveState(invoice_states, st.invoice_number, st)
         /\ effects' = {Saved(st.invoice_number), Mirrored(st.invoice_number, mirror_ok)}
         /\ worksheet' = IF mirror_ok THEN UpdateSpreadsheetRow(worksheet, st)
                         ELSE worksheet
    ELSE /\ effects' = {Raised(st.invoice_number, "ProgrammingError")}
         /\ UNCHANGED <<invoice_states, worksheet>>

\* llm.ainvoke returns: the rest of handle_thread_message up to its next await
LLMReturn(h, answer) ==
    /\ handler[h].pc = "llm"
    /\ LET hs == handler[h]
           st == hs.state
           parsed == ParseMessageWithLLM(hs.msg, answer)
           intent == parsed.intent
           br == Branch(st, intent)
           tx == TransactionId(parsed, hs.msg)
       IN CASE br = "status" ->
                 /\ effects' = SafeSend(hs.inv, "status")
                 /\ handler' = Return(h)
                 /\ UNCHANGED <<invoice_states, worksheet, outcomes>>
            [] br = "already" ->
                 /\ effects' = SafeSend(hs.inv, "already")
                 /\ handler' = Return(h)
                 /\ UNCHANGED <<invoice_states, worksheet, outcomes>>
            [] br = "decide" ->
                 IF intent = "approve" /\ Argument(parsed.cost_center) = ""
                 THEN /\ effects' = SafeSend(hs.inv, "ask_cc")
                      /\ handler' = Return(h)
                      /\ UNCHANGED <<invoice_states, worksheet, outcomes>>
                 ELSE IF lifecycle = "running"
                 THEN /\ effects' = {Sent(hs.inv, IF intent = "approve"
                                                  THEN "approved" ELSE "rejected")}
                      /\ handler' = [handler EXCEPT ![h].pc = "decided",
                                         ![h].state = Decide(st, intent, parsed, hs.author)]
                      /\ UNCHANGED <<invoice_states, worksheet, outcomes>>
                 ELSE /\ \E mirror_ok \in BOOLEAN :
                            WriteDecision(Decide(st, intent, parsed, hs.author), mirror_ok)
                      /\ handler' = Return(h)
                      /\ UNCHANGED outcomes
            [] OTHER ->
                 IF PaymentOpen(st, intent, hs.msg) /\ AlreadyCompleted(st)
                 THEN /\ effects' = SafeSend(hs.inv, "already_completed")
                      /\ handler' = Return(h)
                      /\ UNCHANGED <<invoice_states, worksheet, outcomes>>
                 ELSE IF PaymentOpen(st, intent, hs.msg) /\ Truthy(tx)
                 THEN IF IsLedgerHash(tx)
                      THEN /\ handler' = [handler EXCEPT ![h].pc = "verify_status",
                                                         ![h].tx = Lower(tx)]
                           /\ effects' = {CalledLedger(hs.inv, "status")}
                           /\ UNCHANGED <<invoice_states, worksheet, outcomes>>
                      ELSE /\ PersistPayment(hs.inv, RecordPayment(st, tx),
                                             "payment_recorded")
                           /\ handler' = Return(h)
                 ELSE /\ effects' = IF PaymentOpen(st, intent, hs.msg) /\ intent = "payment"
                                    THEN SafeSend(hs.inv, "guidance") ELSE {}
                      /\ handler' = Return(h)
                      /\ UNCHANGED <<invoice_states, worksheet, outcomes>>
    /\ UNCHANGED <<thread_map, sweep, creator, now, nextId, budget, lifecycle,
                   ingest_vars, followup_vars>>

\* a write of the decision that is undone when the mirror fails
DecidedReturnRollingBack(h, mirror_ok) ==
    /\ handler[h].pc = "decided"
    /\ LET st == handler[h].state
       IN /\ invoice_states' = IF mirror_ok
                                THEN SaveState(invoice_states, st.invoice_number, st)
                                ELSE invoice_states
          /\ effects' = {Saved(st.invoice_number), Mirrored(st.invoice_number, mirror_ok)}
          /\ worksheet' = IF mirror_ok THEN UpdateSpreadsheetRow(worksheet, st)
                          ELSE worksheet
    /\ handler' = Return(h)
    /\ UNCHANGED <<thread_map, sweep, creator, outcomes, now, nextId, budget, lifecycle,
                   ingest_vars, followup_vars>>

\* the decision reply was sent: save_state, then update_spreadsheet_row
DecidedReturn(h, mirror_ok) ==
    /\ handler[h].pc = "decided"
    /\ WriteDecision(handler[h].state, mirror_ok)
    /\ handler' = Return(h)
    /\ UNCHANGED <<thread_map, sweep, creator, outcomes, now, nextId, budget, lifecycle,
                   ingest_vars, followup_vars>>

\* check_transaction_success returns from the executor
VerifyStatusReturn(h, answer) ==
    /\ handler[h].pc = "verify_status"
    /\ handler' = [handler EXCEPT ![h].pc = "verify_amount",
                                  ![h].success = CheckTransactionSuccess(answer)]
    /\ effects' = {CalledLedger(handler[h].inv, "amount")}
    /\ UNCHANGED <<invoice_states, thread_map, worksheet, sweep, creator, outcomes,
                   now, nextId, budget, lifecycle,
                   ingest_vars, followup_vars>>

\* get_transaction_amount_eth returns: store the verdict, mirror, notify
VerifyAmountReturn(h, answer) ==
    /\ handler[h].pc = "verify_amount"
    /\ LET hs == handler[h]
       IN PersistPayment(hs.inv,
                         VerifiedPayment(hs.state, hs.tx, hs.success,
                                         GetTransactionAmountEth(answer)),
                         IF hs.success THEN "payment_ok" ELSE "payment_failed")
    /\ handler' = Return(h)
    /\ UNCHANGED <<thread_map, sweep, creator, now, nextId, budget, lifecycle,
                   ingest_vars, followup_vars>>

\* ------------------------------------------------------------------------
\* reminder_task and post_or_update_sla_message
\* ------------------------------------------------------------------------
\* SELECT ... WHERE state_json LIKE '%"approval_status": "pending"%'
PendingRows == {r \in invoice_states : r.state_json.approval_status = "pending"}

\* the orders in which fetchall() may list a set of rows
Orders(S) == {q \in [1..Cardinality(S) -> S] : \A r \in S : \E k \in DOMAIN q : q[k] = r}

MinutesPerHour == 60

\* a reminder rule that waits until the interval is exceeded
ReminderDueLate(st, clock) ==
    IF st.last_reminder # NoneInt
    THEN clock - st.last_reminder > ReminderIntervalHours * MinutesPerHour
    ELSE /\ st.reminder_count = 0
         /\ clock - st.timestamp > ReminderIntervalHours * MinutesPerHour

\* the reminder rule of reminder_task, for the sweep's copy of a record
ReminderDue(st, clock) ==
    IF st.last_reminder # NoneInt
    THEN clock - st.last_reminder >= ReminderIntervalHours * MinutesPerHour
    ELSE /\ st.reminder_count = 0
         /\ clock - st.timestamp >= ReminderIntervalHours * MinutesPerHour

\* the sweep turns to the rows q (the first is the next record): it runs
\* post_or_update_sla_message up to its first await, or ends
SweepBegin(q) ==
    IF q = <<>> THEN IdleSweep
    ELSE [ pc |-> IF q[1].state_json.sla_message_id # NoneInt
                  THEN "sla_edit" ELSE "sla_send",
           rows |-> q, state |-> q[1].state_json ]

\* a fresh SLA notice is posted when the record has none
SentBegin(q) ==
    IF q # <<>> /\ q[1].state_json.sla_message_id = NoneInt
    THEN {Sent(q[1].invoice_number, "sla")} ELSE {}

\* a loop body that forgets to save the record after the SLA notice
SweepAfterSlaUnsaved(st) ==
    /\ UNCHANGED invoice_states
    /\ IF ReminderDue(st, Clock)
       THEN /\ sweep' = [sweep EXCEPT !.pc = "reminder", !.state = st]
            /\ effects' = {Sent(sweep.rows[1].invoice_number, "reminder")}
       ELSE /\ sweep' = SweepBegin(Tail(sweep.rows))
            /\ effects' = SentBegin(Tail(sweep.rows))

\* the loop body after post_or_update_sla_message returned st: save_state,
\* then the reminder check; the reminder is sent (await) or the loop goes on
SweepAfterSla(st) ==
    LET key == sweep.rows[1].invoice_number
    IN /\ invoice_states' = SaveState(invoice_states, key, st)
       /\ IF ReminderDue(st, Clock)
          THEN /\ sweep' = [sweep EXCEPT !.pc = "reminder", !.state = st]
               /\ effects' = {Saved(key), Sent(key, "reminder")}
          ELSE /\ sweep' = SweepBegin(Tail(sweep.rows))
               /\ effects' = {Saved(key)} \cup SentBegin(Tail(sweep.rows))

\* the loop fires every two minutes
SweepStart(q) ==
    /\ sweep.pc = "idle"
    /\ lifecycle = "running"
    /\ budget.sweeps > 0
    /\ budget' = [budget EXCEPT !.sweeps = @ - 1]
    /\ q \in Orders(PendingRows)
    /\ sweep' = SweepBegin(q)
    /\ effects' = SentBegin(q)
    /\ UNCHANGED <<invoice_states, thread_map, worksheet, handler, creator, outcomes,
                   now, nextId, lifecycle,
                   ingest_vars, followup_vars>>

\* fetch_message + edit return: edited in place (ok), or the edit failed and a
\* fresh notice is sent instead
SlaEditReturn(ok) ==
    /\ sweep.pc = "sla_edit"
    /\ IF ok
       THEN /\ SweepAfterSla(sweep.state)
            /\ UNCHANGED nextId
       ELSE /\ sweep' = [sweep EXCEPT !.pc = "sla_send"]
            /\ effects' = {Sent(sweep.rows[1].invoice_number, "sla")}
            /\ UNCHANGED <<invoice_states, nextId>>
    /\ UNCHANGED <<thread_map, worksheet, handler, creator, outcomes, now, budget,
                   lifecycle,
                   ingest_vars, followup_vars>>

\* a fallback that posts the fresh notice and keeps the stored handle
SlaSendReturnKeepsHandle ==
    /\ sweep.pc = "sla_send"
    /\ SweepAfterSla(sweep.state)
    /\ nextId' = nextId + 1
    /\ UNCHANGED <<thread_map, worksheet, handler, creator, outcomes, now, budget,
                   lifecycle,
                   ingest_vars, followup_vars>>

\* safe_send of the SLA notice returns the new message: its id is stored
SlaSendReturn ==
    /\ sweep.pc = "sla_send"
    /\ SweepAfterSla([sweep.state EXCEPT !.sla_message_id = nextId])
    /\ nextId' = nextId + 1
    /\ UNCHANGED <<thread_map, worksheet, handler, creator, outcomes, now, budget,
                   lifecycle,
                   ingest_vars, followup_vars>>

\* send_reminder returned: count it, stamp it, save_state, next record
ReminderReturn ==
    /\ sweep.pc = "reminder"
    /\ LET st == [sweep.state EXCEPT
                     !.reminder_count = IF sweep.state.last_reminder # NoneInt
                                        THEN @ + 1 ELSE 1,
                     !.last_reminder = Clock]
           key == sweep.rows[1].invoice_number
       IN /\ invoice_states' = SaveState(invoice_states, key, st)
          /\ effects' = {Saved(key)} \cup SentBegin(Tail(sweep.rows))
    /\ sweep' = SweepBegin(Tail(sweep.rows))
    /\ UNCHANGED <<thread_map, worksheet, handler, creator, outcomes, now, nextId, budget,
                   lifecycle,
                   ingest_vars, followup_vars>>

\* ------------------------------------------------------------------------
\* process_invoice: the creation workflow
\* ------------------------------------------------------------------------
\* payloads: complete (""), or lacking one of the ten required fields
MissingFields == {"", "Invoice Number", "Total Amount"}

\* a creation step that skips the validation of process_invoice_node
SubmitUnvalidated(inv, missing) ==
    /\ creator.pc = "idle"
    /\ budget.creates > 0
    /\ budget' = [budget EXCEPT !.creates = @ - 1]
    /\ creator' = [pc |-> "posting", state |-> InitialState(inv, Clock)]
    /\ effects' = {Sent(inv, "notice")}
    /\ UNCHANGED <<invoice_states, thread_map, worksheet, handler, sweep, outcomes,
                   now, nextId, lifecycle,
                   ingest_vars, followup_vars>>

\* process_invoice -> process_invoice_node -> post_to_discord_node up to the
\* await of channel.send; invoice_data['Invoice Number'] raises KeyError when
\* that field is missing, process_invoice_node raises ValueError for any
\* other missing required field
Submit(inv, missing) ==
    /\ creator.pc = "idle"
    /\ budget.creates > 0
    /\ budget' = [budget EXCEPT !.creates = @ - 1]
    /\ IF missing # ""
       THEN /\ effects' = {Raised(inv, IF missing = "Invoice Number"
                                       THEN "KeyError" ELSE "ValueError")}
            /\ UNCHANGED creator
       ELSE IF lifecycle = "closed"
       THEN /\ effects' = {Raised(inv, "ValueError")}
            /\ UNCHANGED creator
       ELSE /\ creator' = [pc |-> "posting", state |-> InitialState(inv, Clock)]
            /\ effects' = {Sent(inv, "notice")}
    /\ UNCHANGED <<invoice_states, thread_map, worksheet, handler, sweep, outcomes,
                   now, nextId, lifecycle,
                   ingest_vars, followup_vars>>

\* channel.send / create_thread return. Running: the first SLA notice is
\* sent. Stopping: safe_send drops the SLA notice without an await, so
\* save_state and the thread_map row follow at once. Closed: the call raised
\* and post_to_discord_node raises ValueError.
PostReturn ==
    /\ creator.pc = "posting"
    /\ LET st == [creator.state EXCEPT !.discord_thread_id = nextId,
                                       !.discord_message_id = nextId + 1]
           inv == creator.state.invoice_number
       IN CASE lifecycle = "running" ->
                 /\ creator' = [creator EXCEPT !.pc = "sla", !.state = st]
                 /\ nextId' = nextId + 2
                 /\ effects' = {Sent(inv, "sla")}
                 /\ UNCHANGED <<invoice_states, thread_map>>
            [] lifecycle = "stopping" ->
                 /\ creator' = [creator EXCEPT !.pc = "append", !.state = st]
                 /\ nextId' = nextId + 2
                 /\ invoice_states' = SaveState(invoice_states, inv, st)
                 /\ thread_map' = MapThread(thread_map, st.discord_thread_id, inv)
                 /\ effects' = {Saved(inv)}
            [] OTHER ->
                 /\ creator' = IdleCreator
                 /\ effects' = {Raised(inv, "ValueError")}
                 /\ UNCHANGED <<invoice_states, thread_map, nextId>>
    /\ UNCHANGED <<worksheet, handler, sweep, outcomes, now, budget, lifecycle,
                   ingest_vars, followup_vars>>

\* the SLA notice was sent: save_state and the thread_map row; save_state
\* raises when the connection is closed
PostSaved ==
    /\ creator.pc = "sla"
    /\ LET st == [creator.state EXCEPT !.sla_message_id = nextId]
       IN IF ConnOpen
          THEN /\ creator' = [creator EXCEPT !.pc = "append", !.state = st]
               /\ invoice_states' = SaveState(invoice_states, st.invoice_number, st)
               /\ thread_map' = MapThread(thread_map, st.discord_thread_id,
                                          st.invoice_number)
               /\ effects' = {Saved(st.invoice_number)}
               /\ nextId' = nextId + 1
          ELSE /\ creator' = IdleCreator
               /\ effects' = {Raised(st.invoice_number, "ProgrammingError")}
               /\ UNCHANGED <<invoice_states, thread_map, nextId>>
    /\ UNCHANGED <<worksheet, handler, sweep, outcomes, now, budget, lifecycle,
                   ingest_vars, followup_vars>>

\* update_spreadsheet_node: append_row, or its three attempts all failed
AppendRow(ok) ==
    /\ creator.pc = "append"
    /\ IF ok
       THEN /\ worksheet' = Append(worksheet, SheetRow(creator.state))
            /\ creator' = [creator EXCEPT !.pc = "appended"]
       ELSE /\ creator' = IdleCreator
            /\ UNCHANGED worksheet
    /\ effects' = {}
    /\ UNCHANGED <<invoice_states, thread_map, handler, sweep, outcomes, now,
                   nextId, budget, lifecycle,
                   ingest_vars, followup_vars>>

\* update_spreadsheet_node: the row number is the sheet's length (header
\* included), saved with the workflow's copy of the record
RowSaved ==
    /\ creator.pc = "appended"
    /\ LET st == [creator.state EXCEPT !.spreadsheet_row = Len(worksheet) + 1]
       IN IF ConnOpen
          THEN /\ invoice_states' = SaveState(invoice_states, st.invoice_number, st)
               /\ effects' = {Saved(st.invoice_number)}
          ELSE /\ effects' = {Raised(st.invoice_number, "ProgrammingError")}
               /\ UNCHANGED invoice_states
    /\ creator' = IdleCreator
    /\ UNCHANGED <<thread_map, worksheet, handler, sweep, outcomes, now, nextId,
                   budget, lifecycle,
                   ingest_vars, followup_vars>>

\* ------------------------------------------------------------------------
\* Time and the specifications
\* ------------------------------------------------------------------------
Tick ==
    /\ now < Len(budget.clock)
    /\ now' = now + 1
    /\ effects' = {}
    /\ UNCHANGED <<invoice_states, thread_map, worksheet, handler, sweep, creator,
                   outcomes, nextId, budget, lifecycle,
                   ingest_vars, followup_vars>>

\* stop() up to its await: shutting_down is set and reminder_task is
\* cancelled, which ends the sweep at the await it is suspended at
StopBegin ==
    /\ lifecycle = "running"
    /\ lifecycle' = "stopping"
    /\ sweep' = IdleSweep
    /\ effects' = {}
    /\ UNCHANGED <<invoice_states, thread_map, worksheet, handler, creator, outcomes,
                   now, nextId, budget, ingest_vars, followup_vars>>

\* discord_client.close() returned: self.conn.close()
StopEnd ==
    /\ lifecycle = "stopping"
    /\ lifecycle' = "closed"
    /\ effects' = {}
    /\ UNCHANGED <<invoice_states, thread_map, worksheet, handler, sweep, creator,
                   outcomes, now, nextId, budget, ingest_vars, followup_vars>>

\* the steps of stop()
Stop == StopBegin \/ StopEnd

\* the steps of the message handlers
HandleMessage ==
    \/ \E h \in Handlers, tid \in KnownThreads, m \in Messages, a \in Authors,
          cached \in BOOLEAN : Arrive(h, tid, m, a, cached)
    \/ \E h \in Handlers, ok \in BOOLEAN : FetchMember(h, ok)
    \/ \E h \in Handlers, answer \in LLMAnswers : LLMReturn(h, answer)
    \/ \E h \in Handlers, ok \in BOOLEAN : DecidedReturn(h, ok)
    \/ \E h \in Handlers, answer \in ReceiptAnswers : VerifyStatusReturn(h, answer)
    \/ \E h \in Handlers, answer \in AmountAnswers : VerifyAmountReturn(h, answer)

\* the steps of the reminder sweep
Sweep ==
    \/ \E q \in Orders(PendingRows) : SweepStart(q)
    \/ \E ok \in BOOLEAN : SlaEditReturn(ok)
    \/ SlaSendReturn
    \/ ReminderReturn

\* the steps of the creation workflow
Create ==
    \/ \E inv \in Invoices, missing \in MissingFields : Submit(inv, missing)
    \/ PostReturn
    \/ PostSaved
    \/ \E ok \in BOOLEAN : AppendRow(ok)
    \/ RowSaved

Next == HandleMessage \/ Sweep \/ Create \/ Tick

\* the whole agent, from its construction
Spec == Init /\ [][Next]_vars

\* The record process_invoice leaves in the store when its workflow ran to
\* the end at instant ts, as the k-th submission (k = 0, 1, ...)
CreatedRecord(inv, ts, k) ==
    [InitialState(inv, ts) EXCEPT !.discord_thread_id = 3 * k + 1,
                                  !.discord_message_id = 3 * k + 2,
                                  !.sla_message_id = 3 * k + 3,
                                  !.spreadsheet_row = k + 2]

\* the agent after INV-1 and then INV-2 were submitted and posted at T0
InitCreated ==
    /\ invoice_states = {[invoice_number |-> "INV-1",
                          state_json |-> CreatedRecord("INV-1", T0, 0)],
                         [invoice_number |-> "INV-2",
                          state_json |-> CreatedRecord("INV-2", T0, 1)]}
    /\ thread_map = {[thread_id |-> 1, invoice_number |-> "INV-1"],
                     [thread_id |-> 4, invoice_number |-> "INV-2"]}
    /\ worksheet = <<SheetRow(InitialState("INV-1", T0)), SheetRow(InitialState("INV-2", T0))>>
    /\ handler = [h \in Handlers |-> IdleHandler]
    /\ sweep = IdleSweep
    /\ creator = IdleCreator
    /\ effects = {}
    /\ outcomes = [i \in Invoices |-> 0]
    /\ now = 1
    /\ nextId = 7
    /\ lifecycle = "running"
    /\ NoIngestion
    /\ NoFollowups

InitMessages ==
    /\ InitCreated
    /\ budget = [msgs |-> MaxHandled, sweeps |-> 0, creates |-> 0,
                 clock |-> TimePoints]

\* message handlers alone, on the two posted invoices
SpecMessages == InitMessages /\ [][HandleMessage]_vars

InitSweep ==
    /\ InitCreated
    /\ budget = [msgs |-> MaxSweepMsgs, sweeps |-> MaxRounds, creates |-> 0,
                 clock |-> TimePoints]

\* message handlers and the reminder sweep, on the two posted invoices
SpecSweep == InitSweep /\ [][HandleMessage \/ Sweep \/ Tick]_vars

\* the record of the k-th submission after alice approved it with a cost center
ApprovedRecord(inv, ts, k) ==
    [CreatedRecord(inv, ts, k) EXCEPT !.approval_status = "approved",
                                      !.approver = ApproverLabel("alice"),
                                      !.cost_center = "CC-42"]

\* INV-1 is posted and pending; INV-2 was approved at T0, so only INV-1 is
\* awaiting approval
InitOneApproved ==
    /\ invoice_states = {[invoice_number |-> "INV-1",
                          state_json |-> CreatedRecord("INV-1", T0, 0)],
                         [invoice_number |-> "INV-2",
                          state_json |-> ApprovedRecord("INV-2", T0, 1)]}
    /\ thread_map = {[thread_id |-> 1, invoice_number |-> "INV-1"],
                     [thread_id |-> 4, invoice_number |-> "INV-2"]}
    /\ worksheet = UpdateSpreadsheetRow(<<SheetRow(InitialState("INV-1", T0)),
                                          SheetRow(InitialState("INV-2", T0))>>,
                                        ApprovedRecord("INV-2", T0, 1))
    /\ handler = [h \in Handlers |-> IdleHandler]
    /\ sweep = IdleSweep
    /\ creator = IdleCreator
    /\ effects = {}
    /\ outcomes = [i \in Invoices |-> 0]
    /\ now = 1
    /\ nextId = 7
    /\ lifecycle = "running"
    /\ NoIngestion
    /\ NoFollowups

InitReminders ==
    /\ InitOneApproved
    /\ budget = [msgs |-> 0, sweeps |-> MaxReminderSweeps, creates |-> 0,
                 clock |-> ReminderTimes]

\* the reminder sweep alone over several intervals: no approver ever answers
SpecReminders == InitReminders /\ [][Sweep \/ Tick]_vars

\* ------------------------------------------------------------------------
\* Properties
\* ------------------------------------------------------------------------
ApprovalFields(st) ==
    <<st.approval_status, st.approver, st.cost_center, st.rejection_reason>>

PaymentFields(st) ==
    <<st.payment_status, st.transaction_id, st.paid_amount_eth>>

\* the stored record of an invoice carries a decision
Decided(inv) == HasState(inv) /\ LoadState(inv).approval_status # "pending"

\* the stored record of an invoice carries a payment outcome
Settled(inv) == HasState(inv) /\ LoadState(inv).payment_status # "pending"

\* handler h ends the handling of an approve / reject message by writing its
\* decision
AppliesDecision(h) == handler[h].pc = "decided" /\ handler'[h].pc = "idle"

\* C1: approval status is monotonic: once the stored approval_status of a
\* record is approved or rejected, the handling of a further approve / reject
\* message changes none of the stored approval_status, approver, cost_center
\* and rejection_reason.
C1_ApprovalMonotonic ==
    [][\A inv \in Invoices :
         (Decided(inv) /\ \E h \in Handlers : AppliesDecision(h))
         => ApprovalFields(LoadState(inv))' = ApprovalFields(LoadState(inv))]_vars

\* a step of the reminder sweep that writes the record of inv
SweepSaves(inv) == sweep' # sweep /\ Saved(inv) \in effects'

\* C2: no update is lost to the reminder sweep: a save_state of the sweep
\* never writes a record back with its approval_status or its payment_status
\* reverted to pending.
C2_SweepKeepsTransitions ==
    [][\A inv \in Invoices :
         (HasState(inv) /\ SweepSaves(inv))
         => /\ Decided(inv) => LoadState(inv)'.approval_status # "pending"
            /\ Settled(inv) => LoadState(inv)'.payment_status # "pending"]_vars

\* C3: a record is never decided twice: a handler applies its decision only
\* to a record that is still pending in the store, so that of two interleaved
\* handlers on the same pending record at most one applies a decision.
C3_DecidedOnce ==
    [][\A h \in Handlers :
         AppliesDecision(h) => ~Decided(handler[h].inv)]_vars

\* C4: the store holds at most one record per invoice number.
C4_OneRecordPerInvoice ==
    \A r1, r2 \in invoice_states :
        r1.invoice_number = r2.invoice_number => r1 = r2

\* the record of an invoice was written by the creation workflow (twice) and
\* by a decision: a replacing write happened
C4_Witness ==
    \E inv \in Invoices :
        /\ HasState(inv)
        /\ LoadState(inv).spreadsheet_row # NoneInt
        /\ LoadState(inv).approval_status = "approved"
        /\ Saved(inv) \in effects

\* C5: a payment message whose reference is exactly a ledger hash, on a
\* payment-pending record, is verified with the ledger oracle; the stored
\* payment_status becomes completed exactly if the receipt status is "1", and
\* failed for any other status and for an oracle error.
C5_LedgerVerdict ==
    [][\A h \in Handlers :
         /\ \A answer \in LLMAnswers :
              LET parsed == ParseMessageWithLLM(handler[h].msg, answer)
                  st == handler[h].state
              IN (/\ LLMReturn(h, answer)
                  /\ Branch(st, parsed.intent) = "payment"
                  /\ PaymentOpen(st, parsed.intent, handler[h].msg)
                  /\ IsLedgerHash(TransactionId(parsed, handler[h].msg)))
                 => /\ handler'[h].pc = "verify_status"
                    /\ CalledLedger(handler[h].inv, "status") \in effects'
                    /\ UNCHANGED invoice_states
         /\ \A answer \in ReceiptAnswers :
              VerifyStatusReturn(h, answer)
              => /\ handler'[h].pc = "verify_amount"
                 /\ handler'[h].success = (answer = "1")
                 /\ UNCHANGED invoice_states
         /\ \A answer \in AmountAnswers, inv \in Invoices :
              (VerifyAmountReturn(h, answer) /\ handler[h].inv = inv)
              => LoadState(inv)'.payment_status =
                     IF handler[h].success THEN "completed" ELSE "failed"]_vars

\* a failed receipt was stored as a failed payment, and told to the thread
C5_Witness ==
    \E inv \in Invoices :
        /\ HasState(inv)
        /\ LoadState(inv).payment_status = "failed"
        /\ LoadState(inv).transaction_id = HashLower
        /\ Sent(inv, "payment_failed") \in effects

\* C6: payment_status only moves pending -> completed or pending -> failed:
\* once the stored payment_status is completed or failed, the handling of a
\* later message changes none of payment_status, transaction_id and
\* paid_amount_eth of the record, and calls the ledger oracle no more for it.
C6_PaymentFinal ==
    [][\A inv \in Invoices :
         Settled(inv)
         => /\ PaymentFields(LoadState(inv))' = PaymentFields(LoadState(inv))
            /\ \A what \in {"status", "amount"} :
                 CalledLedger(inv, what) \notin effects']_vars

\* handler h is confirming a ledger hash for the invoice
Confirming(h, inv) ==
    handler[h].inv = inv /\ handler[h].pc \in {"verify_status", "verify_amount"}

\* C7: payment confirmation is idempotent: the handling of a ledger hash that
\* the stored record already carries as its settled transaction (the same
\* hash sent a second time, after or while the first is handled) leaves the
\* stored payment fields as the first confirmation set them and posts no
\* further payment outcome notice.
C7_ConfirmationIdempotent ==
    [][\A h \in Handlers, inv \in Invoices :
         (/\ Confirming(h, inv)
          /\ handler'[h] # handler[h]
          /\ Settled(inv)
          /\ LoadState(inv).transaction_id = handler[h].tx)
         => /\ PaymentFields(LoadState(inv))' = PaymentFields(LoadState(inv))
            /\ outcomes'[inv] = outcomes[inv]]_vars

\* C8: a payment-looking message of an approver, on a record the handler
\* loaded with payment_status completed, is answered with the "already
\* completed" reply.
C8_AlreadyCompletedReply ==
    [][\A h \in Handlers, answer \in LLMAnswers :
         LET parsed == ParseMessageWithLLM(handler[h].msg, answer)
             st == handler[h].state
         IN (/\ LLMReturn(h, answer)
             /\ st.payment_status = "completed"
             /\ Truthy(st.transaction_id)
             /\ Branch(st, parsed.intent) = "payment"
             /\ LooksLikePayment(parsed.intent, handler[h].msg))
            => Sent(handler[h].inv, "already_completed") \in effects']_vars

\* C9: a message of a user without the approving role is ignored: its
\* handler ends at the role check, nothing is sent, no oracle is called, and
\* nothing is written to the store, the thread map or the spreadsheet.
C9_OutsiderIgnored ==
    [][\A h \in Handlers :
         /\ (/\ handler[h].pc = "idle"
             /\ handler'[h].pc # "idle"
             /\ handler'[h].author \in Outsiders)
            => /\ handler'[h].pc = "fetch_member"
               /\ effects' = {}
               /\ UNCHANGED <<invoice_states, thread_map, worksheet, outcomes>>
         /\ (/\ handler[h].pc # "idle"
             /\ handler[h].author \in Outsiders
             /\ handler'[h] # handler[h])
            => /\ handler'[h] = IdleHandler
               /\ effects' = {}
               /\ UNCHANGED <<invoice_states, thread_map, worksheet, outcomes>>]_vars

\* an approve message of a user without the role is at the role check
C9_Witness ==
    \E h \in Handlers :
        /\ handler[h].pc = "fetch_member"
        /\ handler[h].author \in Outsiders
        /\ handler[h].msg = MsgApproveCC

\* the calls of update_spreadsheet_row a step makes
MirrorCalls(E) == {e \in E : e.op = "update_spreadsheet_row"}

\* C10: an approve with a cost center c, of an approver, on a pending record
\* sets approval_status to approved, cost_center to c and approver to the
\* acting user, writes the record to the store and calls
\* update_spreadsheet_row exactly once.
C10_ApproveWithCostCenter ==
    [][\A h \in Handlers :
         /\ \A answer \in LLMAnswers :
              LET parsed == ParseMessageWithLLM(handler[h].msg, answer)
                  st == handler[h].state
              IN (/\ LLMReturn(h, answer)
                  /\ st.approval_status = "pending"
                  /\ parsed.intent = "approve"
                  /\ Truthy(parsed.cost_center)
                  /\ Strip(parsed.cost_center) # "")
                 => /\ handler'[h].pc = "decided"
                    /\ handler'[h].state =
                         [st EXCEPT !.approval_status = "approved",
                                    !.cost_center = Strip(parsed.cost_center),
                                    !.approver = ApproverLabel(handler[h].author)]
                    /\ MirrorCalls(effects') = {}
                    /\ UNCHANGED invoice_states
         /\ \A inv \in Invoices :
              (AppliesDecision(h) /\ handler[h].state.invoice_number = inv)
              => /\ LoadState(inv)' = handler[h].state
                 /\ Saved(inv) \in effects'
                 /\ Cardinality(MirrorCalls(effects')) = 1
                 /\ \A e \in MirrorCalls(effects') : e.inv = inv]_vars

\* an approval with its cost center is stored and mirrored
C10_Witness ==
    \E inv \in Invoices :
        /\ HasState(inv)
        /\ LoadState(inv).approval_status = "approved"
        /\ LoadState(inv).cost_center = "CC-42"
        /\ LoadState(inv).approver = "Bob (bob)"
        /\ effects = {Saved(inv), Mirrored(inv, TRUE)}
        /\ worksheet[LoadState(inv).spreadsheet_row - 1].cost_center = "CC-42"

\* C11: an approve message without a cost center, on a record the handler
\* loaded as pending, only produces the reply asking for the cost center:
\* the store, the thread map and the spreadsheet are unchanged, nothing is
\* saved or mirrored, and the handler ends.
C11_ApproveWithoutCostCenter ==
    [][\A h \in Handlers, answer \in LLMAnswers :
         LET parsed == ParseMessageWithLLM(handler[h].msg, answer)
             st == handler[h].state
         IN (/\ LLMReturn(h, answer)
             /\ st.approval_status = "pending"
             /\ parsed.intent = "approve"
             /\ (~Truthy(parsed.cost_center) \/ Strip(parsed.cost_center) = ""))
            => /\ effects' = {Sent(handler[h].inv, "ask_cc")}
               /\ handler'[h] = IdleHandler
               /\ UNCHANGED <<invoice_states, thread_map, worksheet>>]_vars

\* the cost center was asked for, the record is still pending and unowned
C11_Witness ==
    \E inv \in Invoices :
        /\ effects = {Sent(inv, "ask_cc")}
        /\ HasState(inv)
        /\ LoadState(inv).approval_status = "pending"
        /\ LoadState(inv).approver = NoneStr
        /\ \A h \in Handlers : handler[h].pc = "idle"

\* the reason a rejection stores: the given reason, or the sentinel
GivenReason(reason) ==
    IF Truthy(reason) /\ Strip(reason) # "" THEN Strip(reason)
    ELSE "No reason provided"

\* C12: a reject message of an approver, on a record the handler loaded as
\* pending, sets approval_status to rejected, approver to the acting user and
\* rejection_reason to the given reason, or to "No reason provided" when
\* none is given; cost_center stays unset; the rejection is notified, then
\* written to the store and mirrored.
C12_Reject ==
    [][\A h \in Handlers :
         /\ \A answer \in LLMAnswers :
              LET parsed == ParseMessageWithLLM(handler[h].msg, answer)
                  st == handler[h].state
              IN (/\ LLMReturn(h, answer)
                  /\ st.approval_status = "pending"
                  /\ parsed.intent = "reject")
                 => /\ handler'[h].pc = "decided"
                    /\ handler'[h].state =
                         [st EXCEPT !.approval_status = "rejected",
                                    !.approver = ApproverLabel(handler[h].author),
                                    !.rejection_reason = GivenReason(parsed.reason)]
                    /\ handler'[h].state.cost_center = NoneStr
                    /\ effects' = {Sent(handler[h].inv, "rejected")}
         /\ \A inv \in Invoices :
              (/\ AppliesDecision(h)
               /\ handler[h].state.invoice_number = inv
               /\ handler[h].state.approval_status = "rejected")
              => /\ LoadState(inv)' = handler[h].state
                 /\ Saved(inv) \in effects'
                 /\ \E ok \in BOOLEAN : Mirrored(inv, ok) \in effects']_vars

\* a rejection without a reason is stored with the sentinel, and mirrored
C12_Witness ==
    \E inv \in Invoices :
        /\ HasState(inv)
        /\ LoadState(inv).approval_status = "rejected"
        /\ LoadState(inv).rejection_reason = "No reason provided"
        /\ LoadState(inv).approver = "Alice (alice)"
        /\ LoadState(inv).cost_center = NoneStr
        /\ effects = {Saved(inv), Mirrored(inv, TRUE)}
        /\ worksheet[LoadState(inv).spreadsheet_row - 1].status = "rejected"

\* C13: an approve or reject message of an approver, on a record the handler
\* loaded as approved or rejected, produces exactly one reply, the "already
\* decided" acknowledgement, and nothing else: no field of the store changes,
\* there is no save_state and no update_spreadsheet_row, and the handler ends.
C13_AlreadyDecidedReply ==
    [][\A h \in Handlers, answer \in LLMAnswers :
         LET parsed == ParseMessageWithLLM(handler[h].msg, answer)
             st == handler[h].state
         IN (/\ LLMReturn(h, answer)
             /\ st.approval_status \in {"approved", "rejected"}
             /\ parsed.intent \in {"approve", "reject"})
            => /\ effects' = {Sent(handler[h].inv, "already")}
               /\ handler'[h] = IdleHandler
               /\ UNCHANGED <<invoice_states, thread_map, worksheet, outcomes>>]_vars

\* the acknowledgement was sent for a record stored as approved
C13_Witness ==
    \E inv \in Invoices :
        /\ effects = {Sent(inv, "already")}
        /\ HasState(inv)
        /\ LoadState(inv).approval_status = "approved"
        /\ LoadState(inv).approver = "Alice (alice)"
        /\ \A h \in Handlers : handler[h].pc = "idle"

\* C14: whenever a payment-looking message that enters the payment branch
\* contains a ledger hash, the reference of the payment transition is the
\* first hash of the message (lower-cased for the ledger), whatever
\* transaction reference the LLM oracle returned.
C14_HashFirst ==
    [][\A h \in Handlers, answer \in LLMAnswers :
         LET parsed == ParseMessageWithLLM(handler[h].msg, answer)
             st == handler[h].state
         IN (/\ LLMReturn(h, answer)
             /\ Branch(st, parsed.intent) = "payment"
             /\ PaymentOpen(st, parsed.intent, handler[h].msg)
             /\ FirstHash(handler[h].msg) # NoneStr)
            => /\ handler'[h].pc = "verify_status"
               /\ handler'[h].tx = Lower(FirstHash(handler[h].msg))
               /\ UNCHANGED invoice_states]_vars

\* the references of the exact ledger-hash shape
LedgerHashes == {HashTyped, HashLower}

\* C15: trust boundary: in the payment branch a reference that is not
\* exactly a ledger hash is accepted at face value: the stored payment_status
\* becomes completed with that reference as transaction_id and no ledger
\* oracle call is made; a ledger oracle call is only ever made for a
\* reference of the exact ledger-hash shape.
C15_TrustBoundary ==
    [][/\ \A h \in Handlers, answer \in LLMAnswers, inv \in Invoices :
            LET parsed == ParseMessageWithLLM(handler[h].msg, answer)
                st == handler[h].state
                tx == TransactionId(parsed, handler[h].msg)
            IN (/\ LLMReturn(h, answer)
                /\ handler[h].inv = inv
                /\ Branch(st, parsed.intent) = "payment"
                /\ PaymentOpen(st, parsed.intent, handler[h].msg)
                /\ Truthy(tx)
                /\ tx \notin LedgerHashes)
               => /\ LoadState(inv)'.payment_status = "completed"
                  /\ LoadState(inv)'.transaction_id = tx
                  /\ \A e \in effects' : e.op # "ledger"
                  /\ handler'[h] = IdleHandler
      /\ \A e \in effects' :
            e.op = "ledger"
            => \E h \in Handlers :
                 /\ handler'[h].inv = e.inv
                 /\ handler'[h].pc \in {"verify_status", "verify_amount"}
                 /\ handler'[h].tx \in LedgerHashes]_vars

\* a reference that is no ledger hash was stored as a completed payment
C15_Witness ==
    \E inv \in Invoices :
        /\ HasState(inv)
        /\ LoadState(inv).payment_status = "completed"
        /\ LoadState(inv).transaction_id = PlainRef
        /\ LoadState(inv).paid_amount_eth = NoneInt
        /\ Sent(inv, "payment_recorded") \in effects

\* C16 (as stated): payment verification is fail-closed: when the receipt
\* status call errors the outcome is success = false, and when the amount
\* call errors the outcome stored is a failed payment with amount 0; the
\* handler goes on to store the outcome in either case.
C16_FailClosedJoint ==
    [][\A h \in Handlers, inv \in Invoices :
         /\ VerifyStatusReturn(h, "error")
            => handler'[h].success = FALSE /\ handler'[h].pc = "verify_amount"
         /\ (VerifyAmountReturn(h, NoneInt) /\ handler[h].inv = inv)
            => /\ LoadState(inv)'.payment_status = "failed"
               /\ LoadState(inv)'.paid_amount_eth = 0
               /\ Saved(inv) \in effects']_vars

\* C16 (amended): each ledger oracle call is fail-closed on its own and
\* never raises: an error of the receipt status call yields success = false,
\* an error of the amount call yields amount 0 while success stays what the
\* receipt status call returned, and the handler goes on to store the outcome.
C16_FailClosedEach ==
    [][\A h \in Handlers, inv \in Invoices :
         /\ VerifyStatusReturn(h, "error")
            => handler'[h].success = FALSE /\ handler'[h].pc = "verify_amount"
         /\ (VerifyAmountReturn(h, NoneInt) /\ handler[h].inv = inv)
            => /\ LoadState(inv)'.payment_status =
                     IF handler[h].success THEN "completed" ELSE "failed"
               /\ LoadState(inv)'.paid_amount_eth = 0
               /\ LoadState(inv)'.transaction_id = handler[h].tx
               /\ Saved(inv) \in effects'
               /\ handler'[h] = IdleHandler]_vars

\* the amount call failed after a successful receipt: a completed payment
\* with amount 0 is stored
C16_Witness ==
    \E inv \in Invoices :
        /\ HasState(inv)
        /\ LoadState(inv).payment_status = "completed"
        /\ LoadState(inv).transaction_id = HashLower
        /\ LoadState(inv).paid_amount_eth = 0
        /\ Saved(inv) \in effects

\* C17: a failure of update_spreadsheet_row after an approve, a reject or a
\* payment transition does not roll the transition back: the store holds the
\* record exactly as the handler wrote it, the spreadsheet is unchanged, and
\* the handler ends, leaving the agent free to handle later messages.
C17_MirrorFailureKeepsStore ==
    [][\A h \in Handlers, inv \in Invoices :
         (Mirrored(inv, FALSE) \in effects' /\ handler'[h] # handler[h])
         => /\ Saved(inv) \in effects'
            /\ handler'[h] = IdleHandler
            /\ worksheet' = worksheet
            /\ AppliesDecision(h) => LoadState(inv)' = handler[h].state
            /\ \A answer \in AmountAnswers :
                 VerifyAmountReturn(h, answer)
                 => LoadState(inv)' =
                      VerifiedPayment(handler[h].state, handler[h].tx,
                                      handler[h].success,
                                      GetTransactionAmountEth(answer))
            /\ \A answer \in LLMAnswers :
                 LLMReturn(h, answer)
                 => LoadState(inv)' =
                      RecordPayment(handler[h].state,
                                    TransactionId(ParseMessageWithLLM(handler[h].msg, answer),
                                                  handler[h].msg))]_vars

\* the mirror failed on an approval: the store says approved, the sheet still
\* says pending, and a later message is being handled on the approved record
C17_Witness ==
    \E inv \in Invoices, h \in Handlers :
        /\ HasState(inv)
        /\ LoadState(inv).approval_status = "approved"
        /\ worksheet[LoadState(inv).spreadsheet_row - 1].status = "pending"
        /\ handler[h].pc = "llm"
        /\ handler[h].state = LoadState(inv)

\* a call of update_spreadsheet_row for the invoice, successful or not
MirrorAttempt(inv, E) == \E ok \in BOOLEAN : Mirrored(inv, ok) \in E

\* C18 (as stated): every step that changes a stored record, whether an
\* approve, a reject, a payment outcome or an update of the reminder sweep,
\* comes with save_state and with an attempt of update_spreadsheet_row.
C18_MutationsMirrored ==
    [][\A inv \in Invoices :
         (HasState(inv) /\ LoadState(inv)' # LoadState(inv))
         => Saved(inv) \in effects' /\ MirrorAttempt(inv, effects')]_vars

\* C18 (amended): an approve, a reject and a payment outcome are written to
\* the store and followed at once by an attempt of update_spreadsheet_row;
\* the reminder sweep's updates of sla_message_id, reminder_count and
\* last_reminder are written to the store at once, without any call of
\* update_spreadsheet_row.
C18_MutationsPersisted ==
    [][\A inv \in Invoices :
         /\ \A h \in Handlers :
              /\ (AppliesDecision(h) /\ handler[h].state.invoice_number = inv)
                 => /\ LoadState(inv)' = handler[h].state
                    /\ Saved(inv) \in effects'
                    /\ MirrorAttempt(inv, effects')
              /\ (/\ handler[h].pc \in {"llm", "verify_amount"}
                  /\ handler[h].inv = inv
                  /\ handler'[h] # handler[h]
                  /\ LoadState(inv)' # LoadState(inv))
                 => /\ Saved(inv) \in effects'
                    /\ MirrorAttempt(inv, effects')
         /\ (/\ sweep.pc = "sla_send"
             /\ sweep' # sweep
             /\ sweep.rows[1].invoice_number = inv)
            => /\ LoadState(inv)'.sla_message_id = nextId
               /\ Saved(inv) \in effects'
               /\ MirrorCalls(effects') = {}
         /\ (/\ sweep.pc = "reminder"
             /\ sweep' # sweep
             /\ sweep.rows[1].invoice_number = inv)
            => /\ LoadState(inv)'.reminder_count = sweep.state.reminder_count + 1
               /\ LoadState(inv)'.last_reminder = Clock
               /\ Saved(inv) \in effects'
               /\ MirrorCalls(effects') = {}]_vars

\* the sweep replaced the SLA notice and fired a reminder: both updates are
\* in the store, the spreadsheet was not touched
C18_Witness ==
    \E inv \in Invoices :
        /\ HasState(inv)
        /\ LoadState(inv).reminder_count = 1
        /\ LoadState(inv).last_reminder = Clock
        /\ LoadState(inv).sla_message_id >= 7
        /\ Saved(inv) \in effects
        /\ MirrorCalls(effects) = {}
        /\ worksheet = <<SheetRow(InitialState("INV-1", T0)),
                         SheetRow(InitialState("INV-2", T0))>>

\* C19: in every reachable state the reminder_count of every stored record
\* is at most max_reminders: the sweep stops firing once the count reached it.
C19_RemindersBounded ==
    \A r \in invoice_states : r.state_json.reminder_count <= MaxReminders

\* the sweep takes the reminder decision for the record it holds: the SLA
\* notice is done and the loop either sends a reminder or leaves the record
ChecksReminder ==
    /\ sweep.pc \in {"sla_edit", "sla_send"}
    /\ sweep'.pc = "reminder" \/ sweep'.rows # sweep.rows

\* send_reminder returned and the loop leaves the record
FiresReminder == sweep.pc = "reminder" /\ sweep' # sweep

\* minutes since the last reminder, or since creation when never reminded
SinceLast(st, clock) ==
    IF st.last_reminder # NoneInt THEN clock - st.last_reminder
    ELSE clock - st.timestamp

\* C20: a reminder fires at a sweep exactly when the time since the last
\* reminder (since the creation timestamp for the first one) has reached
\* reminder_interval_hours, never earlier; each firing adds exactly 1 to the
\* stored reminder_count and stamps last_reminder with the current time; with
\* the 24 hour interval and no approver message, a sweep over the record at
\* T0 + 24h + 1m leaves reminder_count = 1.
C20_ReminderRule ==
    [][\A inv \in Invoices :
         (sweep.pc # "idle" /\ sweep.rows[1].invoice_number = inv)
         => /\ ChecksReminder
               => (sweep'.pc = "reminder"
                   <=> SinceLast(sweep.state, Clock)
                         >= ReminderIntervalHours * MinutesPerHour)
            /\ FiresReminder
               => /\ LoadState(inv)'.reminder_count = LoadState(inv).reminder_count + 1
                  /\ LoadState(inv)'.last_reminder = Clock
                  /\ effects' \cap {Sent(i, "reminder") : i \in Invoices} = {}
            /\ (/\ Clock = T0 + ReminderIntervalHours * MinutesPerHour + 1
                /\ sweep'.rows # sweep.rows)
               => LoadState(inv)'.reminder_count = 1]_vars

\* the sweeps before the interval did not fire, the sweep one minute after it
\* fired the first reminder
C20_Witness ==
    /\ Clock = T0 + ReminderIntervalHours * MinutesPerHour + 1
    /\ sweep = IdleSweep
    /\ budget.sweeps <= MaxReminderSweeps - 2
    /\ LoadState("INV-1").reminder_count = 1
    /\ LoadState("INV-1").last_reminder = Clock

\* ------------------------------------------------------------------------
\* _compute_time_remaining
\* ------------------------------------------------------------------------
SecondsPerMinute == 60
SecondsPerHour == 3600

Max(a, b) == IF a >= b THEN a ELSE b

\* the two shapes of time_text
Expired == [fmt |-> "Expired", hours |-> 0, minutes |-> 0]
HoursMinutes(h, m) == [fmt |-> "{hours}h {minutes}m", hours |-> h, minutes |-> m]

\* a rendering that forgets to take the minutes within the hour
ComputeTimeRemainingAllMinutes(st, nowSeconds) ==
    LET sla_hours == IF st.approval_sla_hours # 0 THEN st.approval_sla_hours
                     ELSE ApprovalSlaHours
        deadline == st.timestamp * SecondsPerMinute + sla_hours * SecondsPerHour
        seconds_remaining == Max(0, deadline - nowSeconds)
    IN IF seconds_remaining > 0
       THEN HoursMinutes(seconds_remaining \div SecondsPerHour,
                         seconds_remaining \div SecondsPerMinute)
       ELSE Expired

\* _compute_time_remaining: the text, for a record and the current time in
\* seconds (record timestamps count minutes)
ComputeTimeRemaining(st, nowSeconds) ==
    LET sla_hours == IF st.approval_sla_hours # 0 THEN st.approval_sla_hours
                     ELSE ApprovalSlaHours
        deadline == st.timestamp * SecondsPerMinute + sla_hours * SecondsPerHour
        seconds_remaining == Max(0, deadline - nowSeconds)
        hours == seconds_remaining \div SecondsPerHour
        minutes == (seconds_remaining % SecondsPerHour) \div SecondsPerMinute
    IN IF seconds_remaining > 0 THEN HoursMinutes(hours, minutes) ELSE Expired

\* instants (minutes) at which the text is rendered, and seconds past them
SlaTimes == <<0, 1, 59, 60, 61, 720, 1409, 1410, 1411, 1439, 1440, 1441, 1500>>
SecondOffsets == {0, 1, 30, 59}

\* the text rendered for a stored record at sec seconds past the clock
RenderSla(inv, sec) ==
    /\ HasState(inv)
    /\ LET nowSeconds == Clock * SecondsPerMinute + sec
       IN effects' = {Effect("time_text", inv,
                             [now |-> nowSeconds,
                              text |-> ComputeTimeRemaining(LoadState(inv), nowSeconds)])}
    /\ UNCHANGED <<invoice_states, thread_map, worksheet, handler, sweep, creator,
                   outcomes, now, nextId, budget, lifecycle,
                   ingest_vars, followup_vars>>

InitSla ==
    /\ InitCreated
    /\ budget = [msgs |-> 0, sweeps |-> 0, creates |-> 0, clock |-> SlaTimes]

\* _compute_time_remaining applied to the posted invoices as time passes
SpecSla ==
    InitSla /\ [][Tick \/ \E inv \in Invoices, sec \in SecondOffsets : RenderSla(inv, sec)]_vars

WrittenRecords(inv) ==
    {InitialState(inv, T0),
     CreatedRecord(inv, T0, 0),
     ApprovedRecord(inv, T0, 0),
     [ApprovedRecord(inv, T0, 0) EXCEPT !.payment_status = "completed",
                                        !.transaction_id = HashLower,
                                        !.paid_amount_eth = 5],
     [CreatedRecord(inv, T0, 0) EXCEPT !.reminder_count = 1,
                                       !.last_reminder = T0 + 1440]}

\* save_state(inv, st) while the store answers its attempts with answers
SaveStateCall(inv, st, answers) ==
    LET run == RetryLoop(answers, 1)
    IN /\ invoice_states' = IF run.committed
                            THEN SaveState(invoice_states, inv, st)
                            ELSE invoice_states
       /\ effects' = {Effect("save_state", inv,
                             [outcome |-> run.outcome, attempts |-> run.attempts,
                              state |-> st, answers |-> answers])}
       /\ UNCHANGED <<thread_map, worksheet, handler, sweep, creator, outcomes,
                      now, nextId, budget, lifecycle,
                   ingest_vars, followup_vars>>

\* load_state(inv): the decoded row, or None
LoadStateCall(inv) ==
    /\ effects' = {Effect("load_state", inv,
                          IF HasState(inv)
                          THEN [found |-> TRUE, state |-> LoadState(inv)]
                          ELSE [found |-> FALSE, state |-> NoState])}
    /\ UNCHANGED <<invoice_states, thread_map, worksheet, handler, sweep, creator,
                   outcomes, now, nextId, budget, lifecycle,
                   ingest_vars, followup_vars>>

InitStore ==
    /\ invoice_states = {}
    /\ thread_map = {}
    /\ worksheet = <<>>
    /\ handler = [h \in Handlers |-> IdleHandler]
    /\ sweep = IdleSweep
    /\ creator = IdleCreator
    /\ effects = {}
    /\ outcomes = [i \in Invoices |-> 0]
    /\ now = 1
    /\ nextId = 1
    /\ lifecycle = "running"
    /\ NoIngestion
    /\ NoFollowups
    /\ budget = [msgs |-> 0, sweeps |-> 0, creates |-> 0, clock |-> TimePoints]

\* the store layer alone: writers under contention, and readers
SpecStore ==
    InitStore /\ [][\/ \E inv \in Invoices, answers \in AnswerSeqs :
                         \E st \in WrittenRecords(inv) : SaveStateCall(inv, st, answers)
                    \/ \E inv \in Invoices : LoadStateCall(inv)]_vars

\* the calls of save_state in the last step
SaveCalls == {e \in effects : e.op = "save_state"}

\* C22: when every attempt of save_state meets a lock/busy error it makes at
\* most 5 attempts and raises an error to its caller; save_state never
\* returns normally without having committed the record.
C22_ExhaustionIsFatal ==
    [][\A e \in SaveCalls' :
          /\ (\A k \in 1..5 : e.arg.answers[k] = "busy")
             => e.arg.attempts <= 5 /\ e.arg.outcome # "returned"
          /\ e.arg.outcome = "returned"
             => HasState(e.inv)' /\ LoadState(e.inv)' = e.arg.state]_vars

\* save_state met a busy store at every attempt and raised
C22_Witness ==
    \E e \in SaveCalls :
        /\ \A k \in 1..5 : e.arg.answers[k] = "busy"
        /\ e.arg.outcome # "returned"
        /\ ~HasState(e.inv)

\* the calls of load_state in the last step
LoadCalls == {e \in effects : e.op = "load_state"}

\* C23: a record written with save_state(k, r) and then read with
\* load_state(k), with no write to k in between, is field for field r; and
\* load_state of a key never written returns absent.
C23_RoundTrip ==
    [][/\ \A e \in SaveCalls' :
            e.arg.outcome = "returned"
            => /\ Stored(e.inv)' = {[invoice_number |-> e.inv, state_json |-> e.arg.state]}
               /\ \A f \in DOMAIN e.arg.state :
                     LoadState(e.inv)'[f] = e.arg.state[f]
       /\ \A k \in Invoices :
            (\A e \in SaveCalls' : e.inv # k \/ e.arg.outcome # "returned")
            => Stored(k)' = Stored(k)
       /\ \A e \in LoadCalls' :
            /\ Stored(e.inv) = {} => ~e.arg.found
            /\ Stored(e.inv) # {}
               => /\ e.arg.found
                  /\ Stored(e.inv) = {[invoice_number |-> e.inv,
                                       state_json |-> e.arg.state]}]_vars

\* a record with unset fields was written, and load_state returned it
C23_Witness ==
    \E e \in LoadCalls :
        /\ e.arg.found
        /\ e.arg.state = CreatedRecord(e.inv, T0, 0)
        /\ e.arg.state.cost_center = NoneStr
        /\ ~HasState("INV-2")

\* ------------------------------------------------------------------------
\* submit_invoice for invoices that are already posted
\* ------------------------------------------------------------------------
InitResubmit ==
    /\ InitOneApproved
    /\ budget = [msgs |-> 0, sweeps |-> 0, creates |-> MaxResubmits,
                 clock |-> TimePoints]

\* the ingestion worker (or create_discord_thread on a fresh workflow state,
\* as after a restart) submits invoices whose records are already stored
SpecResubmit == InitResubmit /\ [][Create \/ Tick]_vars

\* C24: re-entering the creation step for an invoice whose stored record
\* already has a thread reference does not post a second notice or thread and
\* does not replace the stored record.
C24_PostingIdempotent ==
    [][\A inv \in Invoices :
         (/\ HasState(inv)
          /\ LoadState(inv).discord_thread_id # NoneInt
          /\ creator' # creator)
         => /\ Sent(inv, "notice") \notin effects'
            /\ Stored(inv)' = Stored(inv)]_vars

ShutdownTimes == <<T0 + 1440>>

InitShutdown ==
    /\ InitOneApproved
    /\ budget = [msgs |-> MaxStopMsgs, sweeps |-> MaxStopSweeps,
                 creates |-> MaxStopCreates, clock |-> ShutdownTimes]

\* the agent is stopped while messages, a sweep and a submission are under way
SpecShutdown == InitShutdown /\ [][HandleMessage \/ Sweep \/ Create \/ Stop]_vars

\* C26: once stop() has set shutting_down, no newly arriving chat event is
\* processed (no handler starts) and no component performs an outbound send,
\* post or edit.
C26_SilentAfterStop ==
    [][lifecycle # "running"
       => /\ \A e \in effects' : e.op # "send"
          /\ \A h \in Handlers : handler[h].pc = "idle" => handler'[h].pc = "idle"]_vars

\* C27: a handler suspended at a ledger call, or at the reply of its
\* decision, when stop() runs still completes its save_state: the step that
\* ends it writes its record to the store.
C27_InFlightWritesComplete ==
    [][\A h \in Handlers, inv \in Invoices :
         (/\ lifecycle # "running"
          /\ handler[h].pc \in {"verify_amount", "decided"}
          /\ handler[h].inv = inv
          /\ handler'[h].pc = "idle")
         => /\ Saved(inv) \in effects'
            /\ HasState(inv)'
            /\ ApprovalFields(LoadState(inv)') = ApprovalFields(handler[h].state)]_vars

\* ------------------------------------------------------------------------
\* parse_message_with_llm on its own
\* ------------------------------------------------------------------------
MaxWords == 3
ResolverWords == {"status", "approve", "reject", "because", "spam", "CC-42", HashTyped}
ResolverMessages ==
    UNION {[1..n -> ResolverWords] : n \in 1..MaxWords}

\* the call of parse_message_with_llm(content, state) a handler is
\* suspended in returns, the oracle having answered answer
ParseCall(h, answer) ==
    /\ handler[h].pc = "llm"
    /\ handler' = Return(h)
    /\ effects' = {Effect("parse_message_with_llm", handler[h].inv,
                          [content |-> handler[h].msg, answer |-> answer,
                           parsed |-> ParseMessageWithLLM(handler[h].msg, answer)])}
    /\ UNCHANGED <<invoice_states, thread_map, worksheet, sweep, creator,
                   outcomes, now, nextId, budget, lifecycle,
                   ingest_vars, followup_vars>>

\* a reviewer's message in the thread of INV-1 is at the oracle call
InitResolver ==
    /\ invoice_states = {[invoice_number |-> "INV-1",
                          state_json |-> CreatedRecord("INV-1", T0, 0)],
                         [invoice_number |-> "INV-2",
                          state_json |-> CreatedRecord("INV-2", T0, 1)]}
    /\ thread_map = {[thread_id |-> 1, invoice_number |-> "INV-1"],
                     [thread_id |-> 4, invoice_number |-> "INV-2"]}
    /\ worksheet = <<SheetRow(InitialState("INV-1", T0)), SheetRow(InitialState("INV-2", T0))>>
    /\ \E m \in ResolverMessages :
          handler = [h \in Handlers |->
                       IF h = 1
                       THEN [ pc |-> "llm", inv |-> "INV-1",
                              state |-> CreatedRecord("INV-1", T0, 0), msg |-> m,
                              author |-> "alice", tx |-> NoneStr, success |-> FALSE,
                              thread |-> 1 ]
                       ELSE IdleHandler]
    /\ sweep = IdleSweep
    /\ creator = IdleCreator
    /\ effects = {CalledLLM("INV-1")}
    /\ outcomes = [i \in Invoices |-> 0]
    /\ now = 1
    /\ nextId = 7
    /\ lifecycle = "running"
    /\ NoIngestion
    /\ NoFollowups
    /\ budget = [msgs |-> 0, sweeps |-> 0, creates |-> 0, clock |-> TimePoints]

SpecResolver ==
    InitResolver /\ [][\E h \in Handlers, answer \in LLMAnswers :
                          ParseCall(h, answer)]_vars

ParseCalls == {e \in effects : e.op = "parse_message_with_llm"}

\* C28: for an oracle failure and for a malformed or non-object oracle
\* output, parse_message_with_llm returns the heuristic fallback: its intent
\* is status, approve, reject or none, looked for in that order, and its
\* transaction reference is absent.
C28_FallbackResult ==
    \A e \in ParseCalls :
        e.arg.answer.intent \in {"fail", "malformed", "non_object"}
        => LET words == {e.arg.content[k] : k \in DOMAIN e.arg.content}
           IN /\ e.arg.parsed.intent =
                    IF "status" \in words THEN "status"
                    ELSE IF "approve" \in words THEN "approve"
                    ELSE IF "reject" \in words THEN "reject"
                    ELSE "none"
              /\ e.arg.parsed.transaction_id = NoneStr

\* the oracle's output was not an object; the message asks for the status,
\* mentions an approval and carries a ledger hash
C28_Witness ==
    \E e \in ParseCalls :
        /\ e.arg.answer.intent = "non_object"
        /\ e.arg.content = <<"approve", "status", HashTyped>>
        /\ e.arg.parsed.intent = "status"
        /\ e.arg.parsed.transaction_id = NoneStr

\* C29: when an attempt of save_state before the fifth meets a lock/busy
\* error and the store is free at the next attempt, save_state retries,
\* commits the record and returns normally.
C29_ContentionRetried ==
    [][\A e \in SaveCalls' :
          (\E j \in 1..(Retries - 1) :
              /\ \A k \in 1..j : e.arg.answers[k] = "busy"
              /\ e.arg.answers[j + 1] = "ok")
          => /\ e.arg.outcome = "returned"
             /\ HasState(e.inv)'
             /\ LoadState(e.inv)' = e.arg.state]_vars

\* ------------------------------------------------------------------------
\* The SLA countdown notice
\* ------------------------------------------------------------------------
\* INV-1 is posted with its SLA notice; the SLA notice of INV-2 could not be
\* sent when it was posted (post_or_update_sla_message returned None), so its
\* record was saved without sla_message_id
InitNotice ==
    /\ invoice_states = {[invoice_number |-> "INV-1",
                          state_json |-> CreatedRecord("INV-1", T0, 0)],
                         [invoice_number |-> "INV-2",
                          state_json |-> [CreatedRecord("INV-2", T0, 1)
                                            EXCEPT !.sla_message_id = NoneInt]]}
    /\ thread_map = {[thread_id |-> 1, invoice_number |-> "INV-1"],
                     [thread_id |-> 4, invoice_number |-> "INV-2"]}
    /\ worksheet = <<SheetRow(InitialState("INV-1", T0)), SheetRow(InitialState("INV-2", T0))>>
    /\ handler = [h \in Handlers |-> IdleHandler]
    /\ sweep = IdleSweep
    /\ creator = IdleCreator
    /\ effects = {}
    /\ outcomes = [i \in Invoices |-> 0]
    /\ now = 1
    /\ nextId = 7
    /\ lifecycle = "running"
    /\ NoIngestion
    /\ NoFollowups
    /\ budget = [msgs |-> 0, sweeps |-> MaxNoticeSweeps, creates |-> 0,
                 clock |-> TimePoints]

\* the reminder sweep alone, over a record with and a record without a notice
SpecNotice == InitNotice /\ [][Sweep \/ Tick]_vars

\* C30: the sweep posts a new SLA notice for a record only when the record
\* has no sla_message_id or when editing its notice failed, and then the
\* stored sla_message_id becomes the new notice's; otherwise the notice is
\* edited in place, none is posted and the stored sla_message_id is unchanged.
C30_SingleSlaNotice ==
    [][\A inv \in Invoices :
          LET current == /\ sweep.pc # "idle"
                         /\ sweep.rows[1].invoice_number = inv
                         /\ sweep' # sweep
              editFailed == /\ current
                            /\ sweep.pc = "sla_edit"
                            /\ sweep'.pc = "sla_send"
                            /\ sweep'.rows = sweep.rows
          IN /\ Sent(inv, "sla") \in effects'
                => \/ LoadState(inv)'.sla_message_id = NoneInt
                   \/ editFailed
             /\ current /\ sweep.pc = "sla_send"
                => /\ LoadState(inv)'.sla_message_id = nextId
                   /\ LoadState(inv)'.sla_message_id # LoadState(inv).sla_message_id
                   /\ nextId' = nextId + 1
             /\ current /\ sweep.pc = "sla_edit" /\ ~editFailed
                => /\ Sent(inv, "sla") \notin effects'
                   /\ LoadState(inv)'.sla_message_id = LoadState(inv).sla_message_id
                   /\ nextId' = nextId]_vars

\* after the sweeps the notice of INV-1, whose edit failed, was replaced by
\* a later one, and INV-2 got its first notice
C30_Witness ==
    /\ sweep.pc = "idle"
    /\ LoadState("INV-1").sla_message_id \notin {NoneInt, 3}
    /\ LoadState("INV-2").sla_message_id # NoneInt
    /\ budget.sweeps = 0

\* ------------------------------------------------------------------------
\* The thread index
\* ------------------------------------------------------------------------
\* INV-1 was posted twice (threads 1 and 7, the record carries the last one);
\* the thread_map row of INV-2 could not be written when it was posted, so
\* only the record carries its thread
InitThreads ==
    /\ invoice_states = {[invoice_number |-> "INV-1",
                          state_json |-> CreatedRecord("INV-1", T0, 2)],
                         [invoice_number |-> "INV-2",
                          state_json |-> CreatedRecord("INV-2", T0, 1)]}
    /\ thread_map = {[thread_id |-> 1, invoice_number |-> "INV-1"],
                     [thread_id |-> 7, invoice_number |-> "INV-1"]}
    /\ worksheet = <<SheetRow(InitialState("INV-1", T0)), SheetRow(InitialState("INV-2", T0)),
                     SheetRow(InitialState("INV-1", T0))>>
    /\ handler = [h \in Handlers |-> IdleHandler]
    /\ sweep = IdleSweep
    /\ creator = IdleCreator
    /\ effects = {}
    /\ outcomes = [i \in Invoices |-> 0]
    /\ now = 1
    /\ nextId = 10
    /\ lifecycle = "running"
    /\ NoIngestion
    /\ NoFollowups
    /\ budget = [msgs |-> MaxThreadMsgs, sweeps |-> 0, creates |-> MaxCreates,
                 clock |-> TimePoints]

\* message handlers and the creation workflow on these records
SpecThreads == InitThreads /\ [][HandleMessage \/ Create]_vars

CreationFields(st) == <<st.invoice_number, st.timestamp, st.approval_sla_hours>>

\* handler h ends the handling of a payment message by writing its outcome
AppliesPayment(h) ==
    /\ handler[h].pc \in {"llm", "verify_amount"}
    /\ handler'[h].pc = "idle"
    /\ Saved(handler[h].inv) \in effects'
    /\ lifecycle = "running"

\* C32: approval and payment have disjoint effects: the write of an approve
\* / reject transition leaves the stored payment_status, transaction_id,
\* paid_amount_eth, invoice data and approval_sla_hours unchanged, and the
\* write of a payment transition leaves the stored approval_status, approver,
\* cost_center, rejection_reason, invoice data and approval_sla_hours
\* unchanged.
C32_DisjointAxes ==
    [][\A h \in Handlers, inv \in Invoices :
         /\ (AppliesDecision(h) /\ handler[h].inv = inv /\ HasState(inv))
            => /\ PaymentFields(LoadState(inv))' = PaymentFields(LoadState(inv))
               /\ CreationFields(LoadState(inv))' = CreationFields(LoadState(inv))
         /\ (AppliesPayment(h) /\ handler[h].inv = inv /\ HasState(inv))
            => /\ ApprovalFields(LoadState(inv))' = ApprovalFields(LoadState(inv))
               /\ CreationFields(LoadState(inv))' = CreationFields(LoadState(inv))]_vars

\* a field of a record holds a value
IsSet(v) == v \notin {NoneStr, ""}

\* C33: every stored record is coherent, also after two concurrent approve /
\* reject handlers wrote it (the last write wins, as a whole record): pending
\* has no approver, cost_center or rejection_reason; approved has an approver
\* and a cost_center and no rejection_reason; rejected has an approver and a
\* rejection_reason and no cost_center.
C33_RecordsCoherent ==
    \A r \in invoice_states :
        LET st == r.state_json
        IN /\ st.approval_status \in {"pending", "approved", "rejected"}
           /\ st.approval_status = "pending"
              => ~IsSet(st.approver) /\ ~IsSet(st.cost_center)
                 /\ ~IsSet(st.rejection_reason)
           /\ st.approval_status = "approved"
              => IsSet(st.approver) /\ IsSet(st.cost_center)
                 /\ ~IsSet(st.rejection_reason)
           /\ st.approval_status = "rejected"
              => IsSet(st.approver) /\ IsSet(st.rejection_reason)
                 /\ ~IsSet(st.cost_center)

\* one handler has written its rejection while another, which decided to
\* approve the same record, is about to write over it
C33_Witness ==
    \E h \in Handlers, inv \in Invoices :
        /\ handler[h].pc = "decided"
        /\ handler[h].inv = inv
        /\ handler[h].state.approval_status = "approved"
        /\ LoadState(inv).approval_status = "rejected"
        /\ Saved(inv) \in effects

\* C34 as stated: in every stored record transaction_id and paid_amount_eth
\* are both set when payment_status is completed or failed, and both unset
\* while it is pending.
C34_PaymentFieldsSetTogether ==
    \A r \in invoice_states :
        LET st == r.state_json
        IN IF st.payment_status = "pending"
           THEN ~IsSet(st.transaction_id) /\ st.paid_amount_eth = NoneInt
           ELSE IsSet(st.transaction_id) /\ st.paid_amount_eth # NoneInt

\* C34: in every stored record transaction_id is set when payment_status is
\* completed or failed, paid_amount_eth is set exactly when that reference
\* is a ledger hash (a reference taken at face value records no amount), and
\* both are unset while payment_status is pending.
C34_PaymentFieldsByReference ==
    \A r \in invoice_states :
        LET st == r.state_json
        IN IF st.payment_status = "pending"
           THEN ~IsSet(st.transaction_id) /\ st.paid_amount_eth = NoneInt
           ELSE /\ st.payment_status \in {"completed", "failed"}
                /\ IsSet(st.transaction_id)
                /\ st.paid_amount_eth # NoneInt <=> st.transaction_id = HashLower
                /\ st.payment_status = "failed" => st.transaction_id = HashLower

\* one record was completed on a reference taken at face value, the other
\* on a verified ledger hash
C34_Witness ==
    \E r1, r2 \in invoice_states :
        /\ r1.state_json.payment_status = "completed"
        /\ r1.state_json.transaction_id = PlainRef
        /\ r1.state_json.paid_amount_eth = NoneInt
        /\ r2.state_json.payment_status \in {"completed", "failed"}
        /\ r2.state_json.transaction_id = HashLower
        /\ r2.state_json.paid_amount_eth # NoneInt

\* update_spreadsheet_node ends for the invoice: its save_state returns
CreationEnds(inv) ==
    /\ creator.pc = "appended"
    /\ creator'.pc = "idle"
    /\ creator.state.invoice_number = inv

\* C35: a decision taken while the creation workflow is still running is not
\* lost: when a handler has written an approve, reject or payment transition
\* after post_to_discord_node saved the record and before
\* update_spreadsheet_node saves it, the store still holds the transition
\* after update_spreadsheet_node, and the spreadsheet row shows it.
C35_DecisionSurvivesCreation ==
    [][\A inv \in Invoices :
         (CreationEnds(inv) /\ (Decided(inv) \/ Settled(inv)))
         => /\ ApprovalFields(LoadState(inv)') = ApprovalFields(LoadState(inv))
            /\ PaymentFields(LoadState(inv)') = PaymentFields(LoadState(inv))
            /\ \E k \in DOMAIN worksheet' :
                  /\ worksheet'[k].invoice_number = inv
                  /\ worksheet'[k].status = OverallStatus(LoadState(inv))]_vars

\* ------------------------------------------------------------------------
\* _background_process_invoices
\* ------------------------------------------------------------------------
\* a batch starts on its files: executor.submit(worker, f) for f in files.
\* The files are the PDFs uploaded in the session (for the gdrive batch those
\* not yet in processed_gdrive_ids, or the latest files of the folder when
\* none is left)
StartBatch(b, files) ==
    /\ \A f \in Files : task[<<b, f>>] = "none"
    /\ files # {}
    /\ task' = [t \in Tasks |-> IF t[1] = b /\ t[2] \in files THEN "check" ELSE task[t]]
    /\ effects' = {}
    /\ UNCHANGED <<invoice_states, thread_map, worksheet, handler, sweep, creator,
                   outcomes, now, nextId, budget, lifecycle,
                   processed_gdrive_ids, submitted, followup_vars>>

\* worker: if file_id in self.processed_gdrive_ids: return skipped_duplicate
CheckProcessed(b, f) ==
    /\ task[<<b, f>>] = "check"
    /\ task' = [task EXCEPT ![<<b, f>>] =
                   IF f \in processed_gdrive_ids THEN "skipped" ELSE "add"]
    /\ effects' = {}
    /\ UNCHANGED <<invoice_states, thread_map, worksheet, handler, sweep, creator,
                   outcomes, now, nextId, budget, lifecycle,
                   processed_gdrive_ids, submitted, followup_vars>>

\* worker: self.processed_gdrive_ids.add(file_id), a separate statement of
\* the thread, with no lock held since the membership test
MarkProcessed(b, f) ==
    /\ task[<<b, f>>] = "add"
    /\ processed_gdrive_ids' = processed_gdrive_ids \cup {f}
    /\ task' = [task EXCEPT ![<<b, f>>] = "work"]
    /\ effects' = {}
    /\ UNCHANGED <<invoice_states, thread_map, worksheet, handler, sweep, creator,
                   outcomes, now, nextId, budget, lifecycle,
                   submitted, followup_vars>>

\* outcomes of download_file + process_invoice_file
ProcessingResults == {"completed", "validation_failed", "processing_failed"}

\* worker: download, extraction, and submit_invoice(payload) when the result
\* is completed
ProcessFile(b, f, status) ==
    /\ task[<<b, f>>] = "work"
    /\ task' = [task EXCEPT ![<<b, f>>] = "done"]
    /\ IF status = "completed"
       THEN /\ submitted' = [submitted EXCEPT ![f] = @ + 1]
            /\ effects' = {Effect("submit_invoice", f, b)}
       ELSE /\ effects' = {}
            /\ UNCHANGED submitted
    /\ UNCHANGED <<invoice_states, thread_map, worksheet, handler, sweep, creator,
                   outcomes, now, nextId, budget, lifecycle,
                   processed_gdrive_ids, followup_vars>>

\* the steps of the background batches
Ingest ==
    \/ \E b \in Batches, files \in SUBSET Files : StartBatch(b, files)
    \/ \E b \in Batches, f \in Files : CheckProcessed(b, f)
    \/ \E b \in Batches, f \in Files : MarkProcessed(b, f)
    \/ \E b \in Batches, f \in Files, status \in ProcessingResults :
          ProcessFile(b, f, status)

\* the two batches of a session, no file taken yet
SpecIngest == Init /\ [][Ingest]_vars

\* C36: each uploaded invoice file is submitted at most once: when the two
\* background batches run over the same Drive file id, at most one worker
\* passes the processed_gdrive_ids check for that id and calls
\* submit_invoice.
C36_SubmittedOnce ==
    \A f \in Files :
        /\ Cardinality({b \in Batches : task[<<b, f>>] \in {"add", "work", "done"}}) <= 1
        /\ submitted[f] <= 1

\* ------------------------------------------------------------------------
\* reminder_task when a send raises
\* ------------------------------------------------------------------------
\* the loop body after post_or_update_sla_message returned None: no
\* save_state, then the reminder check on the record as it was read
SweepAfterSlaFailed(st) ==
    /\ UNCHANGED invoice_states
    /\ IF ReminderDue(st, Clock)
       THEN /\ sweep' = [sweep EXCEPT !.pc = "reminder", !.state = st]
            /\ effects' = {Sent(sweep.rows[1].invoice_number, "reminder")}
       ELSE /\ sweep' = SweepBegin(Tail(sweep.rows))
            /\ effects' = SentBegin(Tail(sweep.rows))

\* safe_send of the SLA notice raises: post_or_update_sla_message logs it and
\* returns None
SlaSendRaises ==
    /\ sweep.pc = "sla_send"
    /\ SweepAfterSlaFailed(sweep.state)
    /\ UNCHANGED <<thread_map, worksheet, handler, creator, outcomes, now, nextId,
                   budget, lifecycle, ingest_vars, followup_vars>>

\* safe_send of the reminder raises: the exception leaves send_reminder and
\* the for loop, and is logged by the except of reminder_task
ReminderRaises ==
    /\ sweep.pc = "reminder"
    /\ sweep' = IdleSweep
    /\ effects' = {Raised(sweep.rows[1].invoice_number, "HTTPException")}
    /\ UNCHANGED <<invoice_states, thread_map, worksheet, handler, creator, outcomes,
                   now, nextId, budget, lifecycle, ingest_vars, followup_vars>>

InitSweepFailures ==
    /\ InitCreated
    /\ budget = [msgs |-> 0, sweeps |-> MaxFailingSweeps, creates |-> 0,
                 clock |-> TimePoints]

\* the reminder sweep alone, its sends succeeding or raising
SpecSweepFailures ==
    InitSweepFailures /\ [][Sweep \/ SlaSendRaises \/ ReminderRaises \/ Tick]_vars

\* C37: a failure on one record does not stall the sweep: when updating the
\* SLA notice or sending the reminder of a pending record raises, the same
\* pass of reminder_task goes on with the remaining pending records.
C37_FailureDoesNotStall ==
    [][(/\ sweep.pc \in {"sla_edit", "sla_send", "reminder"}
        /\ sweep' # sweep
        /\ Len(sweep.rows) > 1)
       => /\ sweep'.pc # "idle"
          /\ sweep'.rows \in {sweep.rows, Tail(sweep.rows)}]_vars

\* C38: a decision confirmation is sent only for a persisted decision: when
\* process_approval_message, having posted "Invoice Approved" or "Invoice
\* Rejected", ends, the stored approval_status of the record is that
\* decision, also when save_state fails.
C38_ConfirmedMeansPersisted ==
    [][\A h \in Handlers, inv \in Invoices :
         (/\ handler[h].pc = "decided"
          /\ handler[h].inv = inv
          /\ handler'[h].pc = "idle")
         => /\ HasState(inv)'
            /\ LoadState(inv)'.approval_status = handler[h].state.approval_status]_vars

\* ------------------------------------------------------------------------
\* _followup_scheduler_loop
\* ------------------------------------------------------------------------
\* three business days after the notice, in minutes
ReminderDueAt == T0 + 4320
FollowupTimes == <<0, 4320, 4330>>

\* get_due_followups(now): resolved = FALSE AND reminder_sent = FALSE AND
\* reminder_due_at <= now
DueFollowups ==
    {r \in invoice_followups :
        ~r.resolved /\ ~r.reminder_sent /\ r.reminder_due_at <= Clock}

\* UPDATE invoice_followups SET ... WHERE id = ?; the row is left as it is
\* when the statement fails (the method returns False)
UpdateFollowup(id, field, ok) ==
    IF ok
    THEN {IF r.id = id THEN [r EXCEPT ![field] = TRUE] ELSE r : r \in invoice_followups}
    ELSE invoice_followups

\* the requester answers in the mail thread of a follow-up
ReplyArrives(id) ==
    /\ id \notin replies
    /\ \E r \in invoice_followups : r.id = id
    /\ replies' = replies \cup {id}
    /\ effects' = {}
    /\ UNCHANGED <<invoice_states, thread_map, worksheet, handler, sweep, creator,
                   outcomes, now, nextId, budget, lifecycle, ingest_vars,
                   invoice_followups, followup_loop, reminders>>

\* the loop wakes up: due = get_due_followups(now)
Poll ==
    /\ followup_loop.pc = "sleep"
    /\ followup_loop.polls < MaxPolls
    /\ \E q \in Orders(DueFollowups) :
          followup_loop' = [pc |-> IF q = <<>> THEN "sleep" ELSE "row", due |-> q,
                            polls |-> followup_loop.polls + 1]
    /\ effects' = {}
    /\ UNCHANGED <<invoice_states, thread_map, worksheet, handler, sweep, creator,
                   outcomes, now, nextId, budget, lifecycle, ingest_vars,
                   invoice_followups, replies, reminders>>

\* the loop body for the next due follow-up f. get_thread_messages answers
\* (thread_ok) or fails and returns []; on a reply the row is marked
\* resolved; otherwise, f.reminder_sent being FALSE, send_reply sends the
\* reminder (send_ok) or fails and returns None, and the row is marked
\* reminder_sent. A failed UPDATE (db_ok FALSE) is only reported.
HandleDue(thread_ok, send_ok, db_ok) ==
    /\ followup_loop.pc = "row"
    /\ LET f == followup_loop.due[1]
           replied == thread_ok /\ f.id \in replies
           rest == Tail(followup_loop.due)
       IN /\ IF replied
             THEN /\ invoice_followups' = UpdateFollowup(f.id, "resolved", db_ok)
                  /\ effects' = {}
                  /\ UNCHANGED reminders
             ELSE IF ~f.reminder_sent
             THEN /\ invoice_followups' = UpdateFollowup(f.id, "reminder_sent", db_ok)
                  /\ effects' = IF send_ok THEN {Effect("send_reply", f.id, "reminder")}
                                ELSE {}
                  /\ reminders' = IF send_ok THEN [reminders EXCEPT ![f.id] = @ + 1]
                                  ELSE reminders
             ELSE /\ effects' = {}
                  /\ UNCHANGED <<invoice_followups, reminders>>
          /\ followup_loop' = [followup_loop EXCEPT
                                  !.pc = IF rest = <<>> THEN "sleep" ELSE "row",
                                  !.due = rest]
    /\ UNCHANGED <<invoice_states, thread_map, worksheet, handler, sweep, creator,
                   outcomes, now, nextId, budget, lifecycle, ingest_vars, replies>>

\* the steps of the follow-up scheduler and of the requesters
Followup ==
    \/ \E id \in FollowupIds : ReplyArrives(id)
    \/ Poll
    \/ \E thread_ok, send_ok, db_ok \in BOOLEAN : HandleDue(thread_ok, send_ok, db_ok)

\* _handle_validation_failure sent the notice for two files and created
\* their follow-ups
InitFollowups ==
    /\ invoice_states = {}
    /\ thread_map = {}
    /\ worksheet = <<>>
    /\ handler = [h \in Handlers |-> IdleHandler]
    /\ sweep = IdleSweep
    /\ creator = IdleCreator
    /\ effects = {}
    /\ outcomes = [i \in Invoices |-> 0]
    /\ now = 1
    /\ nextId = 1
    /\ lifecycle = "running"
    /\ NoIngestion
    /\ invoice_followups = {[id |-> id, reminder_due_at |-> ReminderDueAt,
                             reminder_sent |-> FALSE, resolved |-> FALSE] :
                            id \in FollowupIds}
    /\ replies = {}
    /\ followup_loop = IdleLoop
    /\ reminders = [f \in FollowupIds |-> 0]
    /\ budget = [msgs |-> 0, sweeps |-> 0, creates |-> 0, clock |-> FollowupTimes]

SpecFollowups == InitFollowups /\ [][Followup \/ Tick]_vars

\* C39: for each follow-up at most one reminder email is ever sent, and none
\* once a reply was detected: a reminder is sent only for a follow-up that
\* is due, unresolved and not yet reminded, and a follow-up for which a
\* reminder was sent is never selected again.
C39_OneReminder ==
    /\ [](\A id \in FollowupIds : reminders[id] <= 1)
    /\ [][\A id \in FollowupIds :
            reminders'[id] > reminders[id]
            => \E r \in invoice_followups :
                  /\ r.id = id
                  /\ ~r.resolved /\ ~r.reminder_sent
                  /\ r.reminder_due_at <= Clock]_vars

====
